---------------------------- MODULE Spec2Model ----------------------------
(***************************************************************************)
(* A model of src/brotli.js: the fallback encoder brotliCompress /         *)
(* brotliCompressUncompressed over BitWriter, and the decoder              *)
(* brotliDecompress over BitReader.  Numbers follow JavaScript's 32-bit    *)
(* integer operators (<<, >>>, &, |), a read past the end of an array is   *)
(* the value Undefined, and a thrown exception is the control state        *)
(* "error".                                                                *)
(***************************************************************************)
EXTENDS Integers, Sequences, FiniteSets, TLC

VARIABLES
    pc,                 \* control location of the call in progress
    call,               \* which call is in progress: "none", "compress", "roundtrip", "decompress"
    input,              \* the bytes handed to brotliCompress
    bw,                 \* the encoder's BitWriter
    offset,             \* brotliCompressUncompressed: offset into input
    result,             \* what the last finished call returned
    br,                 \* the decoder's BitReader
    output,             \* brotliDecompress: output (a JS array)
    windowBits,         \* brotliDecompress: windowBits
    ringBuffer,         \* brotliDecompress: ringBuffer (entries written so far)
    ringBufferPos,      \* brotliDecompress: ringBufferPos
    distRingBuffer,     \* brotliDecompress: distRingBuffer
    distRingBufferIdx,  \* brotliDecompress: distRingBufferIdx
    isLast,             \* brotliDecompress: isLast
    metaBlockLen,       \* brotliDecompress: metaBlockLen of the current meta-block
    mb,                 \* brotliDecompress: the locals of the compressed meta-block
                        \* being decoded, and the count of commands decoded in it
    cmd,                \* brotliDecompress: the command being executed
    fn                  \* a function called on its own: its arguments and what
                        \* it has returned

vars == <<pc, call, input, bw, offset, result, br, output, windowBits, ringBuffer,
          ringBufferPos, distRingBuffer, distRingBufferIdx, isLast, metaBlockLen, mb, cmd,
          fn>>

encVars == <<input, bw, offset>>
decVars == <<br, output, windowBits, ringBuffer, ringBufferPos, distRingBuffer,
             distRingBufferIdx, isLast, metaBlockLen, mb, cmd>>

---------------------------------------------------------------------------
(* Bounds of the exploration *)

\* the longest input enumerated over ByteVals
MaxLen == 2

\* the number of commands followed inside one compressed meta-block
MaxCommands == 3

\* the number of fields written and read back in one bit stream
MaxFields == 3

\* the iterations of the depth adjustment loop of buildHuffmanCode that are
\* followed
MaxRounds == 40

ByteVals == {0, 97, 255}

---------------------------------------------------------------------------
(* JavaScript's 32-bit integer operators, on values kept in the int32 range *)

Pow2(n) == 2 ^ n

\* "const x = v; ...": v is computed, then Body runs on its value
With(v, Body(_)) == IF {v} # {} THEN Body(v) ELSE Body(v)

\* 2^31 is outside the int32 range: it is only ever added or subtracted in halves
Half31 == Pow2(30)

\* the low 31 bits of an int32 and its sign bit
Low31(x) == IF x >= 0 THEN x ELSE (x + Half31) + Half31
Sign(x) == IF x >= 0 THEN 0 ELSE 1
Int32(sign, low) == IF sign = 1 THEN (low - Half31) - Half31 ELSE low

\* the AND and the OR of two naturals below 2^w
RECURSIVE NatAnd(_, _, _)
NatAnd(a, b, w) ==
    IF a = 0 \/ b = 0 THEN 0
    ELSE IF w = 1 THEN 1
    ELSE LET h == w \div 2
         IN  NatAnd(a % Pow2(h), b % Pow2(h), h)
               + Pow2(h) * NatAnd(a \div Pow2(h), b \div Pow2(h), w - h)

RECURSIVE NatOr(_, _, _)
NatOr(a, b, w) ==
    IF a = 0 THEN b
    ELSE IF b = 0 THEN a
    ELSE IF w = 1 THEN 1
    ELSE LET h == w \div 2
         IN  NatOr(a % Pow2(h), b % Pow2(h), h)
               + Pow2(h) * NatOr(a \div Pow2(h), b \div Pow2(h), w - h)

\* x & y
And32(x, y) ==
    Int32(Sign(x) * Sign(y), NatAnd(Low31(x), Low31(y), 31))

\* x | y
Or32(x, y) ==
    Int32(IF Sign(x) = 1 \/ Sign(y) = 1 THEN 1 ELSE 0, NatOr(Low31(x), Low31(y), 31))

\* x << s  (the shift count is taken modulo 32, the result is an int32)
Shl(x, s) ==
    LET k == s % 32
    IN  IF k = 0 THEN x
        ELSE Int32((Low31(x) \div Pow2(31 - k)) % 2,
                   (Low31(x) % Pow2(31 - k)) * Pow2(k))

\* x >>> s  for s % 32 > 0, or x >= 0 (the result then fits 31 bits)
Ushr(x, s) ==
    LET k == s % 32
    IN  IF k = 0 THEN x
        ELSE Low31(x) \div Pow2(k) + Sign(x) * Pow2(31 - k)

\* what array[i] yields for i outside the array, and the number NaN: two values
\* no byte, length, distance or table entry takes
Undefined == 0 - Pow2(30)
NaN == Undefined - 1

IsNumber(v) == v # Undefined /\ v # NaN

\* a + b and a - b on values that may be undefined or NaN
JsAdd(a, b) == IF IsNumber(a) /\ IsNumber(b) THEN a + b ELSE NaN
JsSub(a, b) == IF IsNumber(a) /\ IsNumber(b) THEN a - b ELSE NaN

\* the int32 an integer operator (&, |, <<) makes of its operand
ToInt32(v) == IF IsNumber(v) THEN v ELSE 0

\* storing v into a Uint8Array element: undefined becomes 0
ToUint8(v) == IF IsNumber(v) THEN v % 256 ELSE 0

\* new Uint8Array(array)
ToUint8Array(a) == [i \in 1..Len(a) |-> ToUint8(a[i])]

\* data[i] for a 0-based index i
At(data, i) == IF i + 1 \in DOMAIN data THEN data[i + 1] ELSE Undefined

---------------------------------------------------------------------------
(* BitWriter *)

NewBitWriter == [output |-> <<>>, bitBuffer |-> 0, bitsUsed |-> 0]

\* the flushing loop of writeBits
RECURSIVE FlushBytes(_)
FlushBytes(w) ==
    IF w.bitsUsed >= 8
    THEN FlushBytes([output    |-> Append(w.output, And32(w.bitBuffer, 255)),
                     bitBuffer |-> Ushr(w.bitBuffer, 8),
                     bitsUsed  |-> w.bitsUsed - 8])
    ELSE w

writeBits(w, value, numBits) ==
    FlushBytes([w EXCEPT !.bitBuffer = Or32(@, Shl(value, w.bitsUsed)),
                         !.bitsUsed = @ + numBits])

\* new Uint8Array(this.output)
toUint8Array(w) == ToUint8Array(w.output)

alignToByte(w) ==
    IF w.bitsUsed > 0
    THEN [output    |-> Append(w.output, And32(w.bitBuffer, 255)),
          bitBuffer |-> 0,
          bitsUsed  |-> 0]
    ELSE w

---------------------------------------------------------------------------
(* brotliCompress and brotliCompressUncompressed *)

maxBlockSize == 65536

Min(a, b) == IF a < b THEN a ELSE b

\* a writer whose stream is empty
NothingWritten == [output |-> <<>>, bitBuffer |-> 0, bitsUsed |-> 0]

\* the stream of WBITS and ISLAST alone, without the ISEMPTY bit behind them
CompressEmptyWithoutIsEmpty ==
    alignToByte(writeBits(writeBits(writeBits(NewBitWriter, 1, 1), 5, 3), 1, 1))

\* brotliCompress on the empty input: the whole stream
CompressEmpty ==
    alignToByte(writeBits(writeBits(writeBits(writeBits(NewBitWriter, 1, 1), 5, 3), 1, 1), 1, 1))

\* brotliCompressUncompressed up to its loop: WBITS = 22
WriteWBits == writeBits(writeBits(NewBitWriter, 1, 1), 5, 3)

\* the size of the block the loop takes at offset off
BlockSize(in, off) == Min(Len(in) - off, maxBlockSize)

\* the block with MLEN itself in the 16-bit field, not MLEN - 1
WriteBlockLengthNotLessOne(w, in, off) ==
    LET size == Min(Len(in) - off, maxBlockSize)
        header == alignToByte(
                      writeBits(writeBits(writeBits(writeBits(w, 0, 1), 0, 2), size, 16), 1, 1))
    IN  [header EXCEPT !.output = @ \o SubSeq(in, off + 1, off + size)]

\* one iteration of the loop: the meta-block header, the padding, the raw bytes
WriteBlock(w, in, off) ==
    LET blockSize == BlockSize(in, off)
        h1 == writeBits(w, 0, 1)
        h2 == writeBits(h1, 0, 2)
        h3 == writeBits(h2, blockSize - 1, 16)
        h4 == writeBits(h3, 1, 1)
        h5 == alignToByte(h4)
    IN  [h5 EXCEPT !.output = @ \o SubSeq(in, off + 1, off + blockSize)]

\* after the loop: the empty last meta-block
WriteLast(w) == alignToByte(writeBits(writeBits(w, 1, 1), 1, 1))

---------------------------------------------------------------------------
(* BitReader *)

NewBitReader(data) ==
    [data |-> data, pos |-> 0, bitPos |-> 0, val |-> 0, bitsAvailable |-> 0]

\* the accumulator refilled up to 16 bits only
RECURSIVE FillBitsToSixteen(_)
FillBitsToSixteen(r) ==
    IF r.bitsAvailable < 16 /\ r.pos < Len(r.data)
    THEN FillBitsToSixteen([r EXCEPT !.val = Or32(@, Shl(r.data[r.pos + 1], r.bitsAvailable)),
                                     !.pos = @ + 1,
                                     !.bitsAvailable = @ + 8])
    ELSE r

RECURSIVE fillBits(_)
fillBits(r) ==
    IF r.bitsAvailable < 24 /\ r.pos < Len(r.data)
    THEN fillBits([r EXCEPT !.val = Or32(@, Shl(r.data[r.pos + 1], r.bitsAvailable)),
                            !.pos = @ + 1,
                            !.bitsAvailable = @ + 8])
    ELSE r

\* readBits(n): the reader afterwards and the value returned
readBits(r, n) ==
    IF n = 0 THEN [br |-> r, v |-> 0]
    ELSE With(fillBits(r), LAMBDA f :
             [br |-> [f EXCEPT !.val = Ushr(@, n), !.bitsAvailable = @ - n],
              v  |-> And32(f.val, Shl(1, n) - 1)])

peekBits(r, n) ==
    With(fillBits(r), LAMBDA f : [br |-> f, v |-> And32(f.val, Shl(1, n) - 1)])

dropBits(r, n) ==
    [r EXCEPT !.val = Ushr(@, n), !.bitsAvailable = @ - n]

---------------------------------------------------------------------------
(* brotliDecompress: stream header and meta-block header *)

\* the WBITS field: the reader afterwards and windowBits
ReadWindowBits(r) ==
    With(readBits(r, 1), LAMBDA b :
        IF b.v = 0 THEN [br |-> b.br, v |-> 16]
        ELSE With(readBits(b.br, 3), LAMBDA w :
                 IF w.v = 0 THEN [br |-> w.br, v |-> 17]
                 ELSE [br |-> w.br, v |-> 17 + w.v]))

WindowSize(wbits) == Shl(1, wbits) - 16

windowSize == WindowSize(windowBits)

\* while (br.bitPos % 8 !== 0) br.readBits(1)
RECURSIVE SkipToBitPos(_)
SkipToBitPos(r) ==
    IF r.bitPos % 8 # 0 THEN SkipToBitPos(readBits(r, 1).br) ELSE r

\* for (i < skipBytes) br.readBits(8)
RECURSIVE SkipBytes(_, _)
SkipBytes(r, n) ==
    IF n = 0 THEN r ELSE SkipBytes(readBits(r, 8).br, n - 1)

\* the MNIBBLES = 3 branch, from the reserved bit on
SkipBlock(r) ==
    With(readBits(readBits(r, 1).br, 1), LAMBDA has :
        IF has.v # 0
        THEN With(readBits(has.br, 2), LAMBDA sk :
                 SkipBytes(SkipToBitPos(sk.br), sk.v + 1))
        ELSE has.br)

\* the reader emptied where its cursor stands, whatever it has buffered
AlignKeepingCursor(r) == [r EXCEPT !.bitsAvailable = 0, !.val = 0]

\* the reader byte-aligned for the raw bytes of an uncompressed meta-block
AlignForRaw(r) ==
    LET bitsConsumed == r.pos * 8 - r.bitsAvailable
        bytesConsumed == bitsConsumed \div 8
        bitsInCurrentByte == bitsConsumed % 8
    IN  [r EXCEPT !.pos = bytesConsumed + (IF bitsInCurrentByte > 0 THEN 1 ELSE 0),
                  !.bitsAvailable = 0,
                  !.val = 0]

\* One pass over the meta-block header: what kind of meta-block it is, the
\* reader after its header, ISLAST and MLEN.
MetaBlockHeader(r) ==
    With(readBits(r, 1), LAMBDA l :
    With(peekBits(l.br, 1), LAMBDA e :
        IF l.v = 1 /\ e.v = 1
        THEN [kind |-> "emptylast", br |-> dropBits(e.br, 1), isLast |-> TRUE, mlen |-> 0]
        ELSE
        With(readBits(IF l.v = 1 THEN e.br ELSE l.br, 2), LAMBDA m :
            IF m.v = 3
            THEN [kind |-> "skip", br |-> SkipBlock(m.br), isLast |-> l.v = 1, mlen |-> 0]
            ELSE
            With(readBits(m.br, (4 + m.v) * 4), LAMBDA len :
                IF l.v = 1
                THEN [kind |-> "compressed", br |-> len.br, isLast |-> TRUE,
                      mlen |-> len.v + 1]
                ELSE
                With(readBits(len.br, 1), LAMBDA u :
                    IF u.v # 0
                    THEN [kind |-> "uncompressed", br |-> AlignForRaw(u.br),
                          isLast |-> FALSE, mlen |-> len.v + 1]
                    ELSE [kind |-> "compressed", br |-> u.br,
                          isLast |-> FALSE, mlen |-> len.v + 1])))))

\* ringBuffer[i]
RingAt(rb, i) == IF i \in DOMAIN rb THEN rb[i] ELSE 0

\* ringBuffer[i] = v, on a Uint8Array of ws elements
RingStore(rb, ws, i, v) ==
    IF i >= 0 /\ i < ws THEN (i :> ToUint8(v)) @@ rb ELSE rb

\* ringBufferPos = (ringBufferPos + 1) & (windowSize - 1)
NextRingPos(p, ws) == And32(p + 1, ws - 1)

\* The raw-byte loop of an uncompressed meta-block on the ring buffer:
\* iterations lo..hi (0-based) starting from st = [rb, p], reading data from
\* position pos0 + i.
RECURSIVE RawCopy(_, _, _, _, _, _)
RawCopy(st, data, pos0, ws, lo, hi) ==
    IF hi < lo THEN st
    ELSE IF lo = hi
    THEN [rb |-> RingStore(st.rb, ws, st.p, At(data, pos0 + lo)),
          p  |-> NextRingPos(st.p, ws)]
    ELSE LET mid == (lo + hi) \div 2
             left == RawCopy(st, data, pos0, ws, lo, mid)
         IN  IF left.p = left.p THEN RawCopy(left, data, pos0, ws, mid + 1, hi) ELSE left

\* the bytes one position further on
RawBytesFromNext(data, pos0, n) == [i \in 1..n |-> At(data, pos0 + i)]

\* the bytes the raw-byte loop pushes onto output
RawBytes(data, pos0, n) == [i \in 1..n |-> At(data, pos0 + i - 1)]

---------------------------------------------------------------------------
(* Typed arrays and results of the reading functions *)

\* new Uint8Array(n)
ZeroArray(n) == [i \in 1..n |-> 0]

\* a[i] = v on a Uint8Array a (0-based i): out-of-range writes are dropped
SetAt(a, i, v) ==
    IF i >= 0 /\ i < Len(a) THEN [a EXCEPT ![i + 1] = ToUint8(v)] ELSE a

\* a reading function returned v; a reading function threw
Ok(r, v) == [br |-> r, v |-> v, err |-> FALSE]
Err(r) == [br |-> r, v |-> 0, err |-> TRUE]

\* Math.floor(Math.log2(n)) and Math.ceil(Math.log2(n)) for n >= 1
RECURSIVE FloorLog2(_)
FloorLog2(n) == IF n < 2 THEN 0 ELSE 1 + FloorLog2(n \div 2)

CeilLog2(n) == IF Pow2(FloorLog2(n)) = n THEN FloorLog2(n) ELSE FloorLog2(n) + 1

Max(a, b) == IF a > b THEN a ELSE b

---------------------------------------------------------------------------
(* Huffman tables *)

\* a table variable holding null, and one holding the array es
NullTable == [isNull |-> TRUE, entries |-> <<>>]
Table(es) == [isNull |-> FALSE, entries |-> es]

\* Math.max(...codeLengths.slice(0, numSymbols))
MaxLength(codeLengths, numSymbols) ==
    LET lens == {codeLengths[i] : i \in 1..numSymbols} \cup {0}
    IN  CHOOSE m \in lens : \A l \in lens : l <= m

\* blCount[len] after the counting loop
BlCount(codeLengths, numSymbols, len) ==
    IF len = 0 THEN 0
    ELSE Cardinality({i \in 1..numSymbols : codeLengths[i] = len})

\* nextCode[bits] after the loop over bits
RECURSIVE NextCode(_, _, _)
NextCode(codeLengths, numSymbols, bits) ==
    IF bits = 0 THEN 0
    ELSE Shl(NextCode(codeLengths, numSymbols, bits - 1)
               + BlCount(codeLengths, numSymbols, bits - 1), 1)

\* the bit reversal loop: rc after reversing the low len bits of c
RECURSIVE ReverseBits(_, _, _)
ReverseBits(c, len, rc) ==
    IF len = 0 THEN rc
    ELSE ReverseBits(Ushr(c, 1), len - 1, Or32(Shl(rc, 1), And32(c, 1)))

\* table.sort((a, b) => a.len - b.len || a.bits - b.bits), a stable sort:
\* e goes behind every entry that does not compare greater
EntryLess(a, b) == a.len < b.len \/ (a.len = b.len /\ a.bits < b.bits)

RECURSIVE InsertSorted(_, _)
InsertSorted(sorted, e) ==
    IF sorted = <<>> THEN <<e>>
    ELSE IF EntryLess(e, sorted[Len(sorted)])
         THEN Append(InsertSorted(SubSeq(sorted, 1, Len(sorted) - 1), e), sorted[Len(sorted)])
         ELSE Append(sorted, e)

RECURSIVE SortTable(_, _)
SortTable(table, n) ==
    IF n = 0 THEN <<>> ELSE InsertSorted(SortTable(table, n - 1), table[n])

\* the entry pushed for symbol i (0-based): nextCode[len]++ has run once for
\* every earlier symbol of the same length
EntryOf(codeLengths, numSymbols, i) ==
    LET len == codeLengths[i + 1]
        c == NextCode(codeLengths, numSymbols, len)
               + Cardinality({j \in 1..i : codeLengths[j] = len})
    IN  [symbol |-> i, bits |-> ReverseBits(c, len, 0), len |-> len]

\* the table after the loop of pushes: one entry for every symbol with a
\* code length above 0, in the order of the symbols
PushEntries(codeLengths, numSymbols) ==
    LET coded == {i \in 0..(numSymbols - 1) : codeLengths[i + 1] > 0}
        \* the k-th symbol of coded, in increasing order
        nth(k) == CHOOSE i \in coded : Cardinality({j \in coded : j < i}) = k - 1
    IN  [k \in 1..Cardinality(coded) |-> EntryOf(codeLengths, numSymbols, nth(k))]

buildHuffmanTable(codeLengths, numSymbols) ==
    IF MaxLength(codeLengths, numSymbols) = 0 THEN Table(<<>>)
    ELSE LET table == PushEntries(codeLengths, numSymbols)
         IN  Table(SortTable(table, Len(table)))

\* the entries of the table that match the bits at the head of the reader
Matching(r, table) ==
    {k \in 1..Len(table.entries) :
        And32(r.val, Shl(1, table.entries[k].len) - 1) = table.entries[k].bits}

readHuffmanSymbol(r, table) ==
    IF table.isNull THEN Err(r)
    ELSE IF Len(table.entries) = 0 THEN Ok(r, 0)
    ELSE IF Len(table.entries) = 1 THEN Ok(r, table.entries[1].symbol)
    ELSE With(fillBits(r), LAMBDA f :
         With(Matching(f, table), LAMBDA hits :
             IF hits = {} THEN Err(f)
             ELSE With(CHOOSE k \in hits : \A j \in hits : k <= j, LAMBDA first :
                      Ok(dropBits(f, table.entries[first].len),
                         table.entries[first].symbol))))

---------------------------------------------------------------------------
(* Prefix codes *)

kCodeLengthCodeOrder == <<1, 2, 3, 4, 0, 5, 17, 6, 16, 7, 8, 9, 10, 11, 12, 13, 14, 15>>

\* x >> s on a value that is not negative
Sar(x, s) == x \div Pow2(s % 32)

\* the symbols a simple prefix code lists: numSymbols reads of symbolBits bits
RECURSIVE ReadSymbols(_, _, _, _)
ReadSymbols(r, symbolBits, numSymbols, symbols) ==
    IF Len(symbols) = numSymbols THEN [br |-> r, v |-> symbols]
    ELSE With(readBits(r, symbolBits), LAMBDA s :
             ReadSymbols(s.br, symbolBits, numSymbols, Append(symbols, s.v)))

\* the code lengths a simple prefix code gives its symbols
SimpleCodeLengths(alphabetSize, symbols, treeSelect) ==
    With(ZeroArray(alphabetSize), LAMBDA zero :
        IF Len(symbols) = 1 THEN SetAt(zero, symbols[1], 1)
        ELSE IF Len(symbols) = 2
        THEN SetAt(SetAt(zero, symbols[1], 1), symbols[2], 1)
        ELSE IF Len(symbols) = 3
        THEN SetAt(SetAt(SetAt(zero, symbols[1], 1), symbols[2], 2), symbols[3], 2)
        ELSE IF treeSelect # 0
        THEN SetAt(SetAt(SetAt(SetAt(zero, symbols[1], 2), symbols[2], 2),
                         symbols[3], 2), symbols[4], 2)
        ELSE SetAt(SetAt(SetAt(SetAt(zero, symbols[1], 1), symbols[2], 2),
                         symbols[3], 3), symbols[4], 3))

readSimplePrefixCode(r, alphabetSize) ==
    With(readBits(r, 2), LAMBDA n :
    With(ReadSymbols(n.br, Max(1, CeilLog2(alphabetSize)), n.v + 1, <<>>), LAMBDA syms :
    With(IF n.v + 1 = 4 THEN readBits(syms.br, 1) ELSE [br |-> syms.br, v |-> 0],
         LAMBDA treeSelect :
        Ok(treeSelect.br,
           buildHuffmanTable(SimpleCodeLengths(alphabetSize, syms.v, treeSelect.v),
                             alphabetSize)))))

\* one iteration of the first loop of readComplexPrefixCode on
\* st = [br, i, space, lengths]; a loop that is over stays where it is
CodeLengthCodeStep(st) ==
    IF st.i < 18 /\ st.space > 0
    THEN LET p == peekBits(st.br, Min(4, FloorLog2(st.space + 1)))
             len == IF p.v < 4 THEN p.v ELSE IF p.v < 12 THEN 4 ELSE 5
         IN  [br      |-> dropBits(p.br, IF p.v < 4 THEN 2 ELSE 4),
              i       |-> st.i + 1,
              space   |-> IF len > 0 THEN st.space - Sar(32, len) ELSE st.space,
              lengths |-> SetAt(st.lengths, kCodeLengthCodeOrder[st.i + 1], len)]
    ELSE st

\* n iterations of the loop from st; the loop is over within 18 iterations
RECURSIVE ReadCodeLengthCodeLengths(_, _)
ReadCodeLengthCodeLengths(st, n) ==
    IF n = 0 THEN st
    ELSE IF n = 1 THEN CodeLengthCodeStep(st)
    ELSE LET half == ReadCodeLengthCodeLengths(st, n \div 2)
         IN  IF half.i = half.i THEN ReadCodeLengthCodeLengths(half, n - n \div 2)
             ELSE half

\* codeLengths[symbol++] = prevCodeLen, count times
RECURSIVE Repeat(_, _, _, _)
Repeat(lengths, symbol, count, len) ==
    IF count = 0 THEN lengths
    ELSE Repeat(SetAt(lengths, symbol, len), symbol + 1, count - 1, len)

\* one iteration of the second loop of readComplexPrefixCode on
\* st = [br, symbol, prevCodeLen, space, lengths, err]; a loop that is over
\* (its test fails, or readHuffmanSymbol has thrown) stays where it is
SymbolLengthStep(st, table, alphabetSize) ==
    IF ~st.err /\ st.symbol < alphabetSize /\ st.space > 0
    THEN With(readHuffmanSymbol(st.br, table), LAMBDA c :
             IF c.err THEN [st EXCEPT !.br = c.br, !.err = TRUE]
             ELSE IF c.v < 16
             THEN [st EXCEPT !.br = c.br,
                             !.symbol = @ + 1,
                             !.prevCodeLen = IF c.v > 0 THEN c.v ELSE @,
                             !.space = IF c.v > 0 THEN @ - Sar(32768, c.v) ELSE @,
                             !.lengths = SetAt(@, st.symbol, c.v)]
             ELSE IF c.v = 16
             THEN With(readBits(c.br, 2), LAMBDA e :
                  With(Min(e.v + 3, alphabetSize - st.symbol), LAMBDA count :
                      [st EXCEPT !.br = e.br,
                                 !.symbol = @ + count,
                                 !.space = @ - count * Sar(32768, st.prevCodeLen),
                                 !.lengths = Repeat(@, st.symbol, count, st.prevCodeLen)]))
             ELSE IF c.v = 17
             THEN With(readBits(c.br, 3), LAMBDA e :
                      [st EXCEPT !.br = e.br, !.symbol = @ + e.v + 3])
             ELSE [st EXCEPT !.br = c.br])
    ELSE st

\* n iterations of the loop from st
RECURSIVE SymbolLengthSteps(_, _, _, _)
SymbolLengthSteps(st, table, alphabetSize, n) ==
    IF n = 0 THEN st
    ELSE IF n = 1 THEN SymbolLengthStep(st, table, alphabetSize)
    ELSE LET half == SymbolLengthSteps(st, table, alphabetSize, n \div 2)
         IN  IF half.symbol = half.symbol
             THEN SymbolLengthSteps(half, table, alphabetSize, n - n \div 2)
             ELSE half

\* the second loop of readComplexPrefixCode: the symbol code lengths. Every
\* iteration adds at least 1 to symbol, so the loop is over within
\* alphabetSize iterations.
ReadSymbolLengths(r, table, alphabetSize) ==
    With(SymbolLengthSteps([br |-> r, symbol |-> 0, prevCodeLen |-> 8,
                            space |-> 32768, lengths |-> ZeroArray(alphabetSize),
                            err |-> FALSE],
                           table, alphabetSize, alphabetSize),
         LAMBDA end : IF end.err THEN Err(end.br) ELSE Ok(end.br, end.lengths))

readComplexPrefixCode(r, alphabetSize, skip) ==
    With(ReadCodeLengthCodeLengths([br |-> r, i |-> skip, space |-> 32,
                                    lengths |-> ZeroArray(18)], 18), LAMBDA cl :
    With(ReadSymbolLengths(cl.br, buildHuffmanTable(cl.lengths, 18), alphabetSize),
         LAMBDA lens :
        IF lens.err THEN Err(lens.br)
        ELSE Ok(lens.br, buildHuffmanTable(lens.v, alphabetSize))))

readPrefixCode(r, alphabetSize) ==
    With(readBits(r, 2), LAMBDA skip :
        IF skip.v = 1 THEN readSimplePrefixCode(skip.br, alphabetSize)
        ELSE readComplexPrefixCode(skip.br, alphabetSize, skip.v))

---------------------------------------------------------------------------
(* Variable-length integers, block lengths and switches, context maps *)

kBlockLengthPrefixCode ==
    << <<1, 2>>, <<5, 2>>, <<9, 2>>, <<13, 2>>, <<17, 3>>, <<25, 3>>, <<33, 3>>,
       <<41, 3>>, <<49, 4>>, <<65, 4>>, <<81, 4>>, <<97, 4>>, <<113, 5>>, <<145, 5>>,
       <<177, 5>>, <<209, 5>>, <<241, 6>>, <<305, 6>>, <<369, 7>>, <<497, 8>>,
       <<753, 9>>, <<1265, 10>>, <<2289, 11>>, <<4337, 12>>, <<8433, 13>>,
       <<16625, 24>> >>

readVarInt(r) ==
    With(readBits(r, 1), LAMBDA p :
        IF p.v # 0
        THEN With(readBits(p.br, 3), LAMBDA nbits :
                 IF nbits.v > 0
                 THEN With(readBits(nbits.br, nbits.v), LAMBDA x :
                          [br |-> x.br, v |-> x.v + Shl(1, nbits.v)])
                 ELSE [br |-> nbits.br, v |-> 1])
        ELSE [br |-> p.br, v |-> 0])

readBlockLength(r, table) ==
    With(readHuffmanSymbol(r, table), LAMBDA code :
        IF code.err \/ code.v >= Len(kBlockLengthPrefixCode) THEN Err(code.br)
        ELSE With(kBlockLengthPrefixCode[code.v + 1], LAMBDA e :
             With(readBits(code.br, e[2]), LAMBDA x : Ok(x.br, e[1] + x.v))))

readBlockSwitch(r, table, prevType, numTypes) ==
    IF table.isNull \/ numTypes <= 1 THEN Ok(r, 0)
    ELSE With(readHuffmanSymbol(r, table), LAMBDA code :
             IF code.err THEN Err(code.br)
             ELSE IF code.v = 0 THEN Ok(code.br, prevType)
             ELSE IF code.v = 1 THEN Ok(code.br, (prevType + 1) % numTypes)
             ELSE Ok(code.br, code.v - 2))

\* the filling loop of readContextMap
RECURSIVE ReadMapEntries(_, _, _, _, _)
ReadMapEntries(r, table, maxRunLengthPrefix, i, contextMap) ==
    IF i < Len(contextMap)
    THEN With(readHuffmanSymbol(r, table), LAMBDA code :
             IF code.err THEN Err(code.br)
             ELSE IF code.v = 0
             THEN ReadMapEntries(code.br, table, maxRunLengthPrefix, i + 1,
                                 SetAt(contextMap, i, 0))
             ELSE IF code.v <= maxRunLengthPrefix
             THEN With(readBits(code.br, code.v), LAMBDA x :
                  With(Min(Shl(1, code.v) + x.v, Len(contextMap) - i), LAMBDA count :
                      ReadMapEntries(x.br, table, maxRunLengthPrefix, i + count,
                                     Repeat(contextMap, i, count, 0))))
             ELSE ReadMapEntries(code.br, table, maxRunLengthPrefix, i + 1,
                                 SetAt(contextMap, i, code.v - maxRunLengthPrefix)))
    ELSE Ok(r, contextMap)

\* one step of the inverse move-to-front loop: mtf after moving entry idx to the front
MoveToFront(mtf, idx) ==
    [j \in 1..Len(mtf) |->
        IF j = 1 THEN ToUint8(At(mtf, idx))
        ELSE IF j - 1 <= idx THEN ToUint8(At(mtf, j - 2))
        ELSE mtf[j]]

RECURSIVE InverseMoveToFront(_, _, _)
InverseMoveToFront(contextMap, mtf, i) ==
    IF i < Len(contextMap)
    THEN LET idx == contextMap[i + 1]
         IN  InverseMoveToFront(SetAt(contextMap, i, At(mtf, idx)),
                                MoveToFront(mtf, idx), i + 1)
    ELSE contextMap

readContextMap(r, contextMapSize, numTrees) ==
    IF numTrees = 1 THEN Ok(r, ZeroArray(contextMapSize))
    ELSE
    With(readBits(r, 1), LAMBDA useRle :
    With(IF useRle.v # 0
         THEN With(readBits(useRle.br, 4), LAMBDA x : [br |-> x.br, v |-> x.v + 1])
         ELSE [br |-> useRle.br, v |-> 0],
         LAMBDA maxRunLengthPrefix :
    With(readPrefixCode(maxRunLengthPrefix.br, numTrees + maxRunLengthPrefix.v),
         LAMBDA table :
        IF table.err THEN Err(table.br)
        ELSE
        With(ReadMapEntries(table.br, table.v, maxRunLengthPrefix.v, 0,
                            ZeroArray(contextMapSize)),
             LAMBDA filled :
            IF filled.err THEN Err(filled.br)
            ELSE With(readBits(filled.br, 1), LAMBDA imtf :
                     IF imtf.v # 0
                     THEN Ok(imtf.br,
                             InverseMoveToFront(filled.v,
                                 [j \in 1..numTrees |-> (j - 1) % 256], 0))
                     ELSE Ok(imtf.br, filled.v))))))

---------------------------------------------------------------------------
(* Commands and distances *)

kInsertLengthPrefixCode ==
    << <<0, 0>>, <<1, 0>>, <<2, 0>>, <<3, 0>>, <<4, 0>>, <<5, 0>>, <<6, 1>>, <<8, 1>>,
       <<10, 2>>, <<14, 2>>, <<18, 3>>, <<26, 3>>, <<34, 4>>, <<50, 4>>, <<66, 5>>,
       <<98, 5>>, <<130, 6>>, <<194, 7>>, <<322, 8>>, <<578, 9>>, <<1090, 10>>,
       <<2114, 12>>, <<6210, 14>>, <<22594, 24>> >>

kCopyLengthPrefixCode ==
    << <<2, 0>>, <<3, 0>>, <<4, 0>>, <<5, 0>>, <<6, 0>>, <<7, 0>>, <<8, 0>>, <<9, 0>>,
       <<10, 1>>, <<12, 1>>, <<14, 2>>, <<18, 2>>, <<22, 3>>, <<30, 3>>, <<38, 4>>,
       <<54, 4>>, <<70, 5>>, <<102, 5>>, <<134, 6>>, <<198, 7>>, <<326, 8>>,
       <<582, 9>>, <<1094, 10>>, <<2118, 24>> >>

kDistanceShortCodeIndexOffset == <<0, 3, 2, 1, 0, 0, 0, 0, 0, 0, 3, 3, 3, 3, 3, 3>>

kDistanceShortCodeValueOffset ==
    <<0, 0, 0, 0, 0 - 1, 1, 0 - 2, 2, 0 - 3, 3, 0 - 1, 1, 0 - 2, 2, 0 - 3, 3>>

kInsertRangeLut == <<0, 0, 8, 8, 0, 16, 8, 16, 16>>
\* a table of copy offsets whose ranges 6 and 7 go the same way
kCopyRangeLutRepeating == <<0, 8, 0, 8, 16, 0, 8, 8, 16>>
kCopyRangeLut == <<0, 8, 0, 8, 16, 0, 16, 8, 16>>

\* what decodeInsertAndCopy returns, and that it threw
Command(r, insertLen, copyLen, distanceCode) ==
    [br |-> r, insertLen |-> insertLen, copyLen |-> copyLen,
     distanceCode |-> distanceCode, err |-> FALSE]
CommandErr(r) ==
    [br |-> r, insertLen |-> 0, copyLen |-> 0, distanceCode |-> 0, err |-> TRUE]

\* the insert length of an insert-and-copy command: read with the reader r
InsertLength(r, insertCode) ==
    IF insertCode < 6 THEN [br |-> r, v |-> insertCode]
    ELSE With(kInsertLengthPrefixCode[Min(insertCode, Len(kInsertLengthPrefixCode) - 1) + 1],
              LAMBDA e :
         With(readBits(r, e[2]), LAMBDA x : [br |-> x.br, v |-> e[1] + x.v]))

\* the copy length of an insert-and-copy command
CopyLength(r, copyCode) ==
    IF copyCode < 8 THEN [br |-> r, v |-> copyCode + 2]
    ELSE With(kCopyLengthPrefixCode[Min(copyCode, Len(kCopyLengthPrefixCode) - 1) + 1],
              LAMBDA e :
         With(readBits(r, e[2]), LAMBDA x : [br |-> x.br, v |-> e[1] + x.v]))

decodeInsertAndCopy(r, cmdCode) ==
    IF cmdCode < 128
    THEN IF cmdCode < 6 THEN Command(r, cmdCode, 0, 0)
         ELSE IF cmdCode - 6 + 6 >= Len(kInsertLengthPrefixCode) THEN CommandErr(r)
         ELSE With(kInsertLengthPrefixCode[cmdCode - 6 + 6 + 1], LAMBDA e :
              With(readBits(r, e[2]), LAMBDA x : Command(x.br, e[1] + x.v, 0, 0)))
    ELSE IF cmdCode < 704
    THEN With(Sar(cmdCode - 128, 6), LAMBDA rangeIdx :
         With(InsertLength(r, kInsertRangeLut[rangeIdx + 1]
                                + And32(Sar(cmdCode - 128, 3), 7)), LAMBDA ins :
         With(CopyLength(ins.br, kCopyRangeLut[rangeIdx + 1] + And32(cmdCode - 128, 7)),
              LAMBDA cp :
             Command(cp.br, ins.v, cp.v, IF rangeIdx < 2 THEN 0 ELSE 0 - 1))))
    ELSE Command(r, 0, 0, 0)

decodeDistance(r, distSymbol, ndirect, npostfix) ==
    IF distSymbol < 16 THEN [br |-> r, v |-> distSymbol]
    ELSE IF distSymbol < 16 + ndirect THEN [br |-> r, v |-> distSymbol - 15]
    ELSE LET extraBits == 1 + Sar(distSymbol - ndirect - 16, npostfix + 1)
             postfixMask == Shl(1, npostfix) - 1
             hcode == Sar(distSymbol - ndirect - 16, npostfix)
             lcode == And32(distSymbol - ndirect - 16, postfixMask)
             off == Shl(2 + And32(hcode, 1), extraBits) - 4
         IN  With(readBits(r, extraBits), LAMBDA x :
                 [br |-> x.br, v |-> Shl(off + x.v, npostfix) + lcode + ndirect + 1])

---------------------------------------------------------------------------
(* brotliDecompress: the header of a compressed meta-block *)

\* The block type count of one category and, when it is above 1, its block
\* type table, block length table and first block length.
ReadBlockInfo(r) ==
    With(readVarInt(r), LAMBDA n :
    With([br |-> n.br, num |-> n.v + 1, type |-> 0, length |-> Shl(1, 28),
          lengthTable |-> NullTable, typeTable |-> NullTable, err |-> FALSE], LAMBDA none :
        IF n.v + 1 <= 1 THEN none
        ELSE
        With(readPrefixCode(n.br, n.v + 1 + 2), LAMBDA typeTable :
            IF typeTable.err THEN [none EXCEPT !.br = typeTable.br, !.err = TRUE]
            ELSE
            With(readPrefixCode(typeTable.br, 26), LAMBDA lengthTable :
                IF lengthTable.err THEN [none EXCEPT !.br = lengthTable.br, !.err = TRUE]
                ELSE
                With(readBlockLength(lengthTable.br, lengthTable.v), LAMBDA length :
                    IF length.err THEN [none EXCEPT !.br = length.br, !.err = TRUE]
                    ELSE [none EXCEPT !.br = length.br, !.length = length.v,
                                      !.lengthTable = lengthTable.v,
                                      !.typeTable = typeTable.v])))))

\* contextModes[i] = br.readBits(2) for every literal block type
RECURSIVE ReadContextModes(_, _, _)
ReadContextModes(r, n, modes) ==
    IF Len(modes) = n THEN [br |-> r, v |-> modes]
    ELSE With(readBits(r, 2), LAMBDA m :
             ReadContextModes(m.br, n, Append(modes, m.v)))

\* tables.push(readPrefixCode(br, alphabetSize)), n times
RECURSIVE ReadTables(_, _, _, _)
ReadTables(r, n, alphabetSize, tables) ==
    IF Len(tables) = n THEN Ok(r, tables)
    ELSE With(readPrefixCode(r, alphabetSize), LAMBDA t :
             IF t.err THEN Err(t.br)
             ELSE ReadTables(t.br, n, alphabetSize, Append(tables, t.v)))

\* Everything brotliDecompress reads between the meta-block header and the
\* body loop, and the locals the body loop starts with.
\* brotliDecompress has thrown while it read the header
HeaderErr(r) == [br |-> r, err |-> TRUE, mb |-> [commands |-> 0]]

CompressedHeader(r) ==
    With(ReadBlockInfo(r), LAMBDA litInfo :
    IF litInfo.err THEN HeaderErr(litInfo.br) ELSE
    With(ReadBlockInfo(litInfo.br), LAMBDA cmdInfo :
    IF cmdInfo.err THEN HeaderErr(cmdInfo.br) ELSE
    With(ReadBlockInfo(cmdInfo.br), LAMBDA distInfo :
    IF distInfo.err THEN HeaderErr(distInfo.br) ELSE
    With(readBits(distInfo.br, 2), LAMBDA npostfix :
    With(readBits(npostfix.br, 4), LAMBDA nd :
    With(ReadContextModes(nd.br, litInfo.num, <<>>), LAMBDA contextModes :
    With(readVarInt(contextModes.br), LAMBDA nlt :
    With(readContextMap(nlt.br, litInfo.num * 64, nlt.v + 1), LAMBDA literalContextMap :
    IF literalContextMap.err THEN HeaderErr(literalContextMap.br) ELSE
    With(readVarInt(literalContextMap.br), LAMBDA ndt :
    With(readContextMap(ndt.br, distInfo.num * 4, ndt.v + 1), LAMBDA distanceContextMap :
    IF distanceContextMap.err THEN HeaderErr(distanceContextMap.br) ELSE
    With(ReadTables(distanceContextMap.br, nlt.v + 1, 256, <<>>), LAMBDA literalTables :
    IF literalTables.err THEN HeaderErr(literalTables.br) ELSE
    With(ReadTables(literalTables.br, cmdInfo.num, 704, <<>>), LAMBDA commandTables :
    IF commandTables.err THEN HeaderErr(commandTables.br) ELSE
    With(ReadTables(commandTables.br, ndt.v + 1,
                    16 + Shl(nd.v, npostfix.v) + Shl(48, npostfix.v), <<>>),
         LAMBDA distanceTables :
    IF distanceTables.err THEN HeaderErr(distanceTables.br) ELSE
    [br |-> distanceTables.br, err |-> FALSE, mb |->
     [commands |-> 0,
      numLiteralBlockTypes |-> litInfo.num,
      literalBlockType |-> 0,
      literalBlockLength |-> litInfo.length,
      literalBlockLengthTable |-> litInfo.lengthTable,
      literalBlockTypeTable |-> litInfo.typeTable,
      numCommandBlockTypes |-> cmdInfo.num,
      commandBlockType |-> 0,
      commandBlockLength |-> cmdInfo.length,
      commandBlockLengthTable |-> cmdInfo.lengthTable,
      commandBlockTypeTable |-> cmdInfo.typeTable,
      numDistanceBlockTypes |-> distInfo.num,
      distanceBlockType |-> 0,
      distanceBlockLength |-> distInfo.length,
      distanceBlockLengthTable |-> distInfo.lengthTable,
      distanceBlockTypeTable |-> distInfo.typeTable,
      npostfix |-> npostfix.v,
      ndirect |-> Shl(nd.v, npostfix.v),
      contextModes |-> contextModes.v,
      literalContextMap |-> literalContextMap.v,
      distanceContextMap |-> distanceContextMap.v,
      literalTables |-> literalTables.v,
      commandTables |-> commandTables.v,
      distanceTables |-> distanceTables.v,
      metaBlockBytesWritten |-> 0,
      prevByte1 |-> 0,
      prevByte2 |-> 0]]
    )))))))))))))

\* the locals of a call that is in no compressed meta-block
NoMetaBlock == [commands |-> 0]

\* the command being executed: its lengths, its loop counter i, the distance
\* and the copy source once they are computed
NoCommand == [cmdCode |-> 0, insertLen |-> 0, copyLen |-> 0, distanceCode |-> 0,
              i |-> 0, distance |-> 0, copyFrom |-> 0]

---------------------------------------------------------------------------
(* brotliDecompress: the body loop of a compressed meta-block *)

\* "if (length === 0) { type = readBlockSwitch(...); length = readBlockLength(...) }
\*  length--" for one block category
SwitchBlock(r, length, type, typeTable, lengthTable, numTypes) ==
    IF length = 0
    THEN With(readBlockSwitch(r, typeTable, type, numTypes), LAMBDA t :
             IF t.err THEN [br |-> t.br, type |-> type, length |-> length, err |-> TRUE]
             ELSE With(readBlockLength(t.br, lengthTable), LAMBDA l :
                      IF l.err
                      THEN [br |-> l.br, type |-> t.v, length |-> length, err |-> TRUE]
                      ELSE [br |-> l.br, type |-> t.v, length |-> l.v - 1, err |-> FALSE]))
    ELSE [br |-> r, type |-> type, length |-> length - 1, err |-> FALSE]

\* kContextLookup[i]
kContextLookup(i) ==
    IF i < 256 THEN And32(i, 63) ELSE Sar(i - 256, 2)

\* the context of the next literal
LiteralContext(contextMode, prevByte1, prevByte2) ==
    IF contextMode = 0 THEN And32(prevByte1, 63)
    ELSE IF contextMode = 1 THEN Sar(prevByte1, 2)
    ELSE IF contextMode = 2
    THEN Or32(kContextLookup(prevByte1), kContextLookup(256 + prevByte2))
    ELSE Or32(Shl(kContextLookup(256 + prevByte1), 3), kContextLookup(256 + prevByte2))

\* tables[idx], a table or undefined (reading a symbol with it then throws)
TableAt(tables, idx) ==
    IF IsNumber(idx) /\ idx >= 0 /\ idx < Len(tables) THEN tables[idx + 1] ELSE NullTable

\* distRingBuffer[i]
DistAt(ring, i) == ring[i + 1]

\* The distance of the command: the reader afterwards, the distance, the
\* distance block state.
ResolvedDistance(r, m, c, ring, ringIdx) ==
    IF c.distanceCode = 0
    THEN [br |-> r, type |-> m.distanceBlockType, length |-> m.distanceBlockLength,
          err |-> FALSE, v |-> DistAt(ring, And32(ringIdx - 1, 3))]
    ELSE IF c.distanceCode < 16
    THEN With(JsAdd(DistAt(ring, And32(ToInt32(JsSub(ringIdx,
                        At(kDistanceShortCodeIndexOffset, c.distanceCode))), 3)),
                    At(kDistanceShortCodeValueOffset, c.distanceCode)), LAMBDA d :
             [br |-> r, type |-> m.distanceBlockType, length |-> m.distanceBlockLength,
              err |-> FALSE,
              v |-> IF IsNumber(d) /\ d <= 0 THEN DistAt(ring, And32(ringIdx - 1, 3))
                    ELSE d])
    ELSE With(SwitchBlock(r, m.distanceBlockLength, m.distanceBlockType,
                          m.distanceBlockTypeTable, m.distanceBlockLengthTable,
                          m.numDistanceBlockTypes), LAMBDA sw :
         IF sw.err
         THEN [br |-> sw.br, type |-> sw.type, length |-> sw.length, err |-> TRUE, v |-> 0]
         ELSE
         With(readHuffmanSymbol(sw.br,
                  TableAt(m.distanceTables,
                          At(m.distanceContextMap,
                             sw.type * 4 + (IF c.copyLen > 4 THEN 3 ELSE c.copyLen - 2)))),
              LAMBDA distSymbol :
             IF distSymbol.err
             THEN [br |-> distSymbol.br, type |-> sw.type, length |-> sw.length,
                   err |-> TRUE, v |-> 0]
             ELSE With(decodeDistance(distSymbol.br, distSymbol.v, m.ndirect, m.npostfix),
                       LAMBDA d :
                      [br |-> d.br, type |-> sw.type, length |-> sw.length,
                       err |-> FALSE, v |-> d.v])))

\* the distance stored over the newest entry
PushDistanceOverNewest(ring, ringIdx, distance) ==
    [ring EXCEPT ![And32(ringIdx - 1, 3) + 1] = distance]

\* distRingBuffer after "distRingBuffer[distRingBufferIdx & 3] = distance"
PushDistance(ring, ringIdx, distance) ==
    [ring EXCEPT ![And32(ringIdx, 3) + 1] = distance]

\* (ringBufferPos - distance) & (windowSize - 1)
CopySource(pos, distance, ws) == And32(ToInt32(JsSub(pos, distance)), ws - 1)

\* the insert loop without its test of the meta-block length
InsertLoopIgnoringLength == cmd.i < cmd.insertLen

InsertLoopRuns == cmd.i < cmd.insertLen /\ mb.metaBlockBytesWritten < metaBlockLen
CopyLoopRuns == cmd.i < cmd.copyLen /\ mb.metaBlockBytesWritten < metaBlockLen

\* control is at the test of "while (metaBlockBytesWritten < metaBlockLen)"
AtLoopTop == pc = "body" \/ (pc = "copy" /\ ~CopyLoopRuns)

---------------------------------------------------------------------------
(* brotliCompressBlock: the distance ring of the encoder *)

\* "if (distCode > 0) { lastDistances.pop(); lastDistances.unshift(distance) }"
UpdateLastDistances(lastDistances, distCode, distance) ==
    IF distCode > 0
    THEN <<distance>> \o SubSeq(lastDistances, 1, Len(lastDistances) - 1)
    ELSE lastDistances

---------------------------------------------------------------------------
(* The LZ77 matcher of the encoder *)

kHashMul32 == 506832829

\* the number of bits of a natural
RECURSIVE BitLength(_)
BitLength(n) == IF n = 0 THEN 0 ELSE 1 + BitLength(n \div 2)

\* |val| * kHashMul32 in four limbs of 15 bits, least significant first (the
\* product has up to 60 bits)
HashProduct(val) ==
    With(IF val = Int32(1, 0) THEN <<0, 0, 2>>
         ELSE With(IF val < 0 THEN 0 - val ELSE val, LAMBDA m :
                  <<m % 32768, (m \div 32768) % 32768, m \div Pow2(30)>>), LAMBDA a :
    With(kHashMul32 % 32768, LAMBDA m0 :
    With(kHashMul32 \div 32768, LAMBDA m1 :
    With(a[1] * m0, LAMBDA c0 :
    With(a[1] * m1 + a[2] * m0 + c0 \div 32768, LAMBDA c1 :
    With(a[2] * m1 + a[3] * m0 + c1 \div 32768, LAMBDA c2 :
         <<c0 % 32768, c1 % 32768, c2 % 32768, a[3] * m1 + c2 \div 32768>>))))))

\* the low 30 bits of the product p rounded at bit k: the bits below k are
\* dropped, and one unit of bit k is added when they are above the half, or
\* at the half with an odd bit k
RoundedLow30(low, k) ==
    With(low % Pow2(k), LAMBDA rem :
        low - rem
          + (IF /\ k > 0
                /\ \/ 2 * rem > Pow2(k)
                   \/ 2 * rem = Pow2(k) /\ (low \div Pow2(k)) % 2 = 1
             THEN Pow2(k) ELSE 0))

\* the int32 that has bit 31 = bit and the low 31 bits l31 when val >= 0, and
\* the int32 of the negated 32 bits otherwise
SignedProduct32(val, bit, l31) ==
    IF val >= 0 \/ (bit = 0 /\ l31 = 0) THEN Int32(bit, l31)
    ELSE IF l31 = 0 THEN Int32(1, 0)
    ELSE Int32(1 - bit, (Half31 - l31) + Half31)

\* "(val * kHashMul32) >>> 0": the product is a double, rounded to 53
\* significant bits (ties to even), and >>> takes it modulo 2^32; the result
\* as the int32 of the same 32 bits
RoundedProduct32(val) ==
    With(HashProduct(val), LAMBDA p :
    With(RoundedLow30(p[1] + 32768 * p[2], Max(0, 45 + BitLength(p[4]) - 53)),
         LAMBDA r30 :
    With((p[3] + r30 \div Pow2(30)) % 4, LAMBDA top2 :
         SignedProduct32(val, top2 \div 2, (top2 % 2) * Pow2(30) + (r30 % Pow2(30))))))

hash4Bytes(data, pos, shift) ==
    Ushr(RoundedProduct32(
             Or32(Or32(ToInt32(At(data, pos)), Shl(ToInt32(At(data, pos + 1)), 8)),
                  Or32(Shl(ToInt32(At(data, pos + 2)), 16),
                       Shl(ToInt32(At(data, pos + 3)), 24)))),
         shift)

RECURSIVE MatchLengthFrom(_, _, _, _, _)
MatchLengthFrom(data, pos1, pos2, maxLen, len) ==
    IF len < maxLen /\ At(data, pos1 + len) = At(data, pos2 + len)
    THEN MatchLengthFrom(data, pos1, pos2, maxLen, len + 1)
    ELSE len

findMatchLength(data, pos1, pos2, maxLen) == MatchLengthFrom(data, pos1, pos2, maxLen, 0)

\* the commands of findMatches
LiteralCommand(data) == [type |-> "literal", data |-> data, length |-> 0, distance |-> 0]
CopyCommand(length, distance) ==
    [type |-> "copy", data |-> <<>>, length |-> length, distance |-> distance]

hashBits == 15

\* hashTable[h], -1 where nothing was stored
HashAt(hashTable, h) == IF h \in DOMAIN hashTable THEN hashTable[h] ELSE 0 - 1

\* "for (i = 1; i < bestLen && pos + i + 4 <= input.length; i++)
\*    hashTable[hash4Bytes(input, pos + i, shift)] = pos + i"
RECURSIVE HashMatchPositions(_, _, _, _, _)
HashMatchPositions(hashTable, in, pos, bestLen, i) ==
    IF i < bestLen /\ pos + i + 4 <= Len(in)
    THEN HashMatchPositions((hash4Bytes(in, pos + i, 32 - hashBits) :> (pos + i)) @@ hashTable,
                            in, pos, bestLen, i + 1)
    ELSE hashTable

\* findMatches before its loop
FindMatchesStart(in) ==
    [input |-> in, pos |-> 0, literalStart |-> 0, hashTable |-> <<>>, commands |-> <<>>]

\* the rest of an iteration once candidate = hashTable[hash] has been read and
\* hashTable[hash] = pos stored (table1 is the table afterwards)
FindMatchesTry(st, maxDistance, candidate, table1) ==
    With(IF candidate >= 0 /\ st.pos - candidate <= maxDistance
         THEN findMatchLength(st.input, candidate, st.pos,
                              Min(Len(st.input) - st.pos, 33554431))
         ELSE 0, LAMBDA matchLen :
        IF matchLen >= 4
        THEN [input |-> st.input,
              pos |-> st.pos + matchLen,
              literalStart |-> st.pos + matchLen,
              hashTable |-> HashMatchPositions(table1, st.input, st.pos, matchLen, 1),
              commands |->
                 (IF st.pos > st.literalStart
                  THEN Append(st.commands,
                              LiteralCommand(SubSeq(st.input, st.literalStart + 1, st.pos)))
                  ELSE st.commands)
                   \o <<CopyCommand(matchLen, st.pos - candidate)>>]
        ELSE [st EXCEPT !.pos = st.pos + 1, !.hashTable = table1])

\* one iteration of "while (pos < input.length)" of findMatches
FindMatchesStep(st, maxDistance) ==
    IF st.pos + 4 <= Len(st.input)
    THEN With(hash4Bytes(st.input, st.pos, 32 - hashBits), LAMBDA hash :
             FindMatchesTry(st, maxDistance, HashAt(st.hashTable, hash),
                            (hash :> st.pos) @@ st.hashTable))
    ELSE FindMatchesTry(st, maxDistance, 0 - 1, st.hashTable)

\* findMatches returning without "Emit remaining literals"
FindMatchesReturnWithoutRest(st) == st.commands

\* findMatches after its loop: the remaining literals, and the return
FindMatchesReturn(st) ==
    IF st.literalStart < Len(st.input)
    THEN Append(st.commands,
                LiteralCommand(SubSeq(st.input, st.literalStart + 1, Len(st.input))))
    ELSE st.commands

RECURSIVE FindMatchesLoop(_, _)
FindMatchesLoop(st, maxDistance) ==
    IF st.pos < Len(st.input)
    THEN FindMatchesLoop(FindMatchesStep(st, maxDistance), maxDistance)
    ELSE FindMatchesReturn(st)

findMatches(in, maxDistance) == FindMatchesLoop(FindMatchesStart(in), maxDistance)

\* brotliCompressBlock: maxDistance for windowBits = 22
maxDistance == Shl(1, 22) - 16

---------------------------------------------------------------------------
(* buildHuffmanCode *)

\* the symbols with a non-zero count, in ascending order, of counts[lo..hi]
\* (1-based positions: symbol s is at position s + 1)
RECURSIVE NonZeroSymbols(_, _, _)
NonZeroSymbols(counts, lo, hi) ==
    IF hi < lo THEN <<>>
    ELSE IF lo = hi
    THEN IF counts[lo] > 0 THEN <<[symbol |-> lo - 1, count |-> counts[lo]]>> ELSE <<>>
    ELSE NonZeroSymbols(counts, lo, (lo + hi) \div 2)
           \o NonZeroSymbols(counts, (lo + hi) \div 2 + 1, hi)

\* how many entries of the sorted run b, among b[lo..hi], have a key below key
RECURSIVE CountBelow(_, _, _, _)
CountBelow(b, key, lo, hi) ==
    IF hi < lo THEN 0
    ELSE LET mid == (lo + hi) \div 2
         IN  IF b[mid].key < key THEN (mid - lo + 1) + CountBelow(b, key, mid + 1, hi)
             ELSE CountBelow(b, key, lo, mid - 1)

\* two runs already sorted merged into one; an entry of the left run a goes
\* before the entries of the right run b that do not have a smaller key
RECURSIVE Merge(_, _)
Merge(a, b) ==
    IF Len(a) = 0 THEN b
    ELSE IF Len(b) = 0 THEN a
    ELSE With((Len(a) + 1) \div 2, LAMBDA m :
         With(CountBelow(b, a[m].key, 1, Len(b)), LAMBDA below :
              Merge(SubSeq(a, 1, m - 1), SubSeq(b, 1, below))
                \o <<a[m]>>
                \o Merge(SubSeq(a, m + 1, Len(a)), SubSeq(b, below + 1, Len(b)))))

\* Array.prototype.sort (stable) of entries by ascending key
RECURSIVE StableSort(_)
StableSort(s) ==
    IF Len(s) <= 1 THEN s
    ELSE With(StableSort(SubSeq(s, 1, Len(s) \div 2)), LAMBDA left :
         With(StableSort(SubSeq(s, Len(s) \div 2 + 1, Len(s))), LAMBDA right :
              Merge(left, right)))

\* symbols.sort((a, b) => b.count - a.count)
SortByCountDescending(symbols) ==
    StableSort(SubSeq([i \in 1..Len(symbols) |->
                          [symbol |-> symbols[i].symbol, count |-> symbols[i].count,
                           key |-> 0 - symbols[i].count]], 1, Len(symbols)))

\* Math.ceil(Math.log2(n / k)) for 1 <= k <= n
RECURSIVE CeilLog2Ratio(_, _)
CeilLog2Ratio(n, k) == IF k >= n THEN 0 ELSE 1 + CeilLog2Ratio(n, 2 * k)

\* the starting depth of the symbol of rank i (0-based) among n
StartDepth(n, i, maxBits) == Min(maxBits, Max(1, CeilLog2Ratio(n, i + 1) + 1))

\* 1 << (maxBits - depth)
DepthWeight(maxBits, depth) == Shl(1, maxBits - depth)

RECURSIVE SumWeights(_, _, _, _)
SumWeights(depths, maxBits, lo, hi) ==
    IF hi < lo THEN 0
    ELSE IF lo = hi THEN DepthWeight(maxBits, depths[lo])
    ELSE SumWeights(depths, maxBits, lo, (lo + hi) \div 2)
           + SumWeights(depths, maxBits, (lo + hi) \div 2 + 1, hi)

\* "for (i = n - 1; i >= 0 && totalBits > targetSum; i--)" on the ranks
\* lo..hi: the depths of these ranks afterwards and totalBits
RECURSIVE IncreaseDepths(_, _, _, _, _)
IncreaseDepths(depths, totalBits, lo, hi, maxBits) ==
    IF ~(totalBits > Shl(1, maxBits))
    THEN [seg |-> SubSeq(depths, lo, hi), totalBits |-> totalBits]
    ELSE IF lo = hi
    THEN IF depths[lo] < maxBits
         THEN [seg |-> <<depths[lo] + 1>>,
               totalBits |-> totalBits - DepthWeight(maxBits, depths[lo])
                               + DepthWeight(maxBits, depths[lo] + 1)]
         ELSE [seg |-> <<depths[lo]>>, totalBits |-> totalBits]
    ELSE With(IncreaseDepths(depths, totalBits, (lo + hi) \div 2 + 1, hi, maxBits),
              LAMBDA right :
         With(IncreaseDepths(depths, right.totalBits, lo, (lo + hi) \div 2, maxBits),
              LAMBDA left :
              [seg |-> left.seg \o right.seg, totalBits |-> left.totalBits]))

\* "for (i = 0; i < n && totalBits < targetSum; i++)" on the ranks lo..hi
RECURSIVE DecreaseDepths(_, _, _, _, _)
DecreaseDepths(depths, totalBits, lo, hi, maxBits) ==
    IF ~(totalBits < Shl(1, maxBits))
    THEN [seg |-> SubSeq(depths, lo, hi), totalBits |-> totalBits]
    ELSE IF lo = hi
    THEN IF depths[lo] > 1
         THEN [seg |-> <<depths[lo] - 1>>,
               totalBits |-> totalBits - DepthWeight(maxBits, depths[lo])
                               + DepthWeight(maxBits, depths[lo] - 1)]
         ELSE [seg |-> <<depths[lo]>>, totalBits |-> totalBits]
    ELSE With(DecreaseDepths(depths, totalBits, lo, (lo + hi) \div 2, maxBits),
              LAMBDA left :
         With(DecreaseDepths(depths, left.totalBits, (lo + hi) \div 2 + 1, hi, maxBits),
              LAMBDA right :
              [seg |-> left.seg \o right.seg, totalBits |-> right.totalBits]))

\* the adjustment with "if" in the place of "while": one pass only
AdjustDepthsOnce(depths, totalBits, maxBits, rounds) ==
    IF totalBits = Shl(1, maxBits) THEN [depths |-> depths, done |-> TRUE]
    ELSE With(IF totalBits > Shl(1, maxBits)
              THEN IncreaseDepths(depths, totalBits, 1, Len(depths), maxBits)
              ELSE DecreaseDepths(depths, totalBits, 1, Len(depths), maxBits),
              LAMBDA pass : [depths |-> pass.seg, done |-> TRUE])

\* "while (totalBits !== targetSum)", followed for at most `rounds` iterations:
\* the depths by rank, and whether the loop was left
RECURSIVE AdjustDepths(_, _, _, _)
AdjustDepths(depths, totalBits, maxBits, rounds) ==
    IF totalBits = Shl(1, maxBits) THEN [depths |-> depths, done |-> TRUE]
    ELSE IF rounds = 0 THEN [depths |-> depths, done |-> FALSE]
    ELSE With(IF totalBits > Shl(1, maxBits)
              THEN IncreaseDepths(depths, totalBits, 1, Len(depths), maxBits)
              ELSE DecreaseDepths(depths, totalBits, 1, Len(depths), maxBits),
              LAMBDA pass : AdjustDepths(pass.seg, pass.totalBits, maxBits, rounds - 1))

\* entry.symbol of the entries sorted by symbol: the depth of symbol s, 0 if
\* it has none
RECURSIVE DepthOfSymbol(_, _, _, _)
DepthOfSymbol(bySymbol, s, lo, hi) ==
    IF hi < lo THEN 0
    ELSE LET mid == (lo + hi) \div 2
         IN  IF bySymbol[mid].symbol = s THEN bySymbol[mid].depth
             ELSE IF bySymbol[mid].symbol < s THEN DepthOfSymbol(bySymbol, s, mid + 1, hi)
             ELSE DepthOfSymbol(bySymbol, s, lo, mid - 1)

\* the Uint8Array depths after "depths[symbols[i].symbol] = ..." for the
\* symbols in their sorted order with the depths by rank
DepthsArray(symbols, byRank, maxSymbols) ==
    With(StableSort(SubSeq([i \in 1..Len(symbols) |->
                               [symbol |-> symbols[i].symbol, depth |-> byRank[i],
                                key |-> symbols[i].symbol]], 1, Len(symbols))),
         LAMBDA bySymbol :
             SubSeq([s \in 1..maxSymbols |->
                        DepthOfSymbol(bySymbol, s - 1, 1, Len(bySymbol))], 1, maxSymbols))

\* blCount[len]: the symbols of depth len
RECURSIVE DepthCount(_, _, _, _)
DepthCount(depths, len, lo, hi) ==
    IF hi < lo THEN 0
    ELSE IF lo = hi THEN IF depths[lo] = len /\ len > 0 THEN 1 ELSE 0
    ELSE DepthCount(depths, len, lo, (lo + hi) \div 2)
           + DepthCount(depths, len, (lo + hi) \div 2 + 1, hi)

\* nextCode[1..maxBits] before any code is handed out
RECURSIVE FirstCodes(_, _, _, _)
FirstCodes(depths, maxBits, bits, acc) ==
    IF bits > maxBits THEN acc
    ELSE FirstCodes(depths, maxBits, bits + 1,
                    Append(acc,
                           Shl((IF bits = 1 THEN 0 ELSE acc[bits - 1])
                                 + DepthCount(depths, bits - 1, 1, Len(depths)), 1)))

\* "rc = (rc << 1) | (c & 1); c >>= 1" len times from rc = 0, on a code c
\* below 2^len: bit j of c becomes bit len - 1 - j
RECURSIVE ReverseCode(_, _)
ReverseCode(c, len) ==
    IF len = 0 THEN 0
    ELSE (c % 2) * Pow2(len - 1) + ReverseCode(c \div 2, len - 1)

\* "for (i = 0; i < maxSymbols; i++)" on the symbols lo - 1..hi - 1:
\* codes[i] of the symbols with a depth, in ascending order, and nextCode
RECURSIVE AssignCodes(_, _, _, _)
AssignCodes(depths, nextCode, lo, hi) ==
    IF lo = hi
    THEN IF depths[lo] = 0 THEN [seg |-> <<>>, nextCode |-> nextCode]
         ELSE [seg |-> <<[symbol |-> lo - 1,
                          code |-> ReverseCode(nextCode[depths[lo]], depths[lo])]>>,
               nextCode |-> [nextCode EXCEPT ![depths[lo]] = @ + 1]]
    ELSE With(AssignCodes(depths, nextCode, lo, (lo + hi) \div 2), LAMBDA left :
         With(AssignCodes(depths, left.nextCode, (lo + hi) \div 2 + 1, hi), LAMBDA right :
              [seg |-> left.seg \o right.seg, nextCode |-> right.nextCode]))

\* buildHuffmanCode(counts, maxSymbols, maxBits), its adjustment loop followed
\* for at most `rounds` iterations; codes is given for the symbols with a
\* depth (the others are 0)
BuildHuffmanCode(counts, maxSymbols, maxBits, rounds) ==
    With(NonZeroSymbols(counts, 1, maxSymbols), LAMBDA symbols :
        IF Len(symbols) = 0
        THEN [depths |-> ZeroArray(maxSymbols), codes |-> <<>>, numSymbols |-> 0,
              done |-> TRUE]
        ELSE IF Len(symbols) = 1
        THEN [depths |-> SetAt(ZeroArray(maxSymbols), symbols[1].symbol, 1),
              codes |-> <<[symbol |-> symbols[1].symbol, code |-> 0]>>,
              numSymbols |-> 1, done |-> TRUE]
        ELSE With(SortByCountDescending(symbols), LAMBDA sorted :
             With(SubSeq([i \in 1..Len(sorted) |->
                             StartDepth(Len(sorted), i - 1, maxBits)], 1, Len(sorted)),
                  LAMBDA start :
             With(AdjustDepths(start, SumWeights(start, maxBits, 1, Len(start)),
                               maxBits, rounds),
                  LAMBDA adjusted :
             With(DepthsArray(sorted, adjusted.depths, maxSymbols), LAMBDA depths :
                  [depths |-> depths,
                   codes |-> AssignCodes(depths, FirstCodes(depths, maxBits, 1, <<>>),
                                         1, maxSymbols).seg,
                   numSymbols |-> Len(symbols),
                   done |-> adjusted.done])))))

---------------------------------------------------------------------------
(* writePrefixCode *)

\* codes[s] of the Uint16Array codes: 0 where no code was assigned
RECURSIVE CodeAt(_, _, _)
CodeAt(codes, s, k) ==
    IF k > Len(codes) THEN 0
    ELSE IF codes[k].symbol = s THEN codes[k].code
    ELSE CodeAt(codes, s, k + 1)

\* "for (i = 0; i < n; i++) bw.writeBits(sorted[i], alphabetBits)" from i on
RECURSIVE WriteSymbols(_, _, _, _)
WriteSymbols(w, sorted, alphabetBits, i) ==
    IF i > Len(sorted) THEN w
    ELSE WriteSymbols(writeBits(w, sorted[i].symbol, alphabetBits), sorted, alphabetBits, i + 1)

\* [...symbols].sort((a, b) => a - b): symbols are entries with a field symbol
SortBySymbol(symbols) ==
    StableSort(SubSeq([i \in 1..Len(symbols) |->
                          [symbol |-> symbols[i].symbol, key |-> symbols[i].symbol]],
                      1, Len(symbols)))

writeSimplePrefixCode(w, symbols, alphabetBits) ==
    With(WriteSymbols(writeBits(writeBits(w, 1, 2), Len(symbols) - 1, 2),
                      SortBySymbol(symbols), alphabetBits, 1),
         LAMBDA listed : IF Len(symbols) = 4 THEN writeBits(listed, 0, 1) ELSE listed)

\* writePrefixCode(bw, counts, numSymbols): the writer afterwards and the
\* depths and codes returned. With more than 4 symbols used the code is
\* written by writeComplexPrefixCode, which is not followed here: complex says
\* so and the writer is left as it was
writePrefixCode(w, counts, numSymbols) ==
    With(NonZeroSymbols(counts, 1, numSymbols), LAMBDA nonZeroSymbols :
        IF Len(nonZeroSymbols) = 0
        THEN [bw |-> writeBits(writeBits(writeBits(w, 1, 2), 0, 2),
                               0, Max(1, CeilLog2(numSymbols))),
              depths |-> ZeroArray(numSymbols), codes |-> <<>>, complex |-> FALSE]
        ELSE With(BuildHuffmanCode(counts, numSymbols, 15, MaxRounds), LAMBDA built :
                 IF Len(nonZeroSymbols) <= 4
                 THEN [bw |-> writeSimplePrefixCode(w, nonZeroSymbols,
                                                    Max(1, CeilLog2(numSymbols))),
                       depths |-> built.depths, codes |-> built.codes, complex |-> FALSE]
                 ELSE [bw |-> w, depths |-> built.depths, codes |-> built.codes,
                       complex |-> TRUE]))

---------------------------------------------------------------------------
(* The command and distance codes of the encoder *)

getCmdCode(insCode, copyCode, useLastDistance) ==
    With(Or32(And32(copyCode, 7), Shl(And32(insCode, 7), 3)), LAMBDA bits64 :
        IF useLastDistance /\ insCode < 8 /\ copyCode < 16
        THEN IF copyCode < 8 THEN bits64 ELSE Or32(bits64, 64)
        ELSE With(2 * (Sar(copyCode, 3) + 3 * Sar(insCode, 3)), LAMBDA off :
                 Or32(Shl(off, 5) + 64 + And32(Sar(5377344, off), 192), bits64)))

\* the first i in lo..4 (1-based) with distance = lastDistances[i], 0 if none
RECURSIVE FirstEqual(_, _, _)
FirstEqual(distance, lastDistances, i) ==
    IF i > 4 THEN 0
    ELSE IF distance = lastDistances[i] THEN i
    ELSE FirstEqual(distance, lastDistances, i + 1)

\* the second pair of loops of getDistanceCode from (i, delta) on: i is
\* 0-based, delta is -1 or 1
RECURSIVE NearCode(_, _, _, _)
NearCode(distance, lastDistances, i, delta) ==
    IF i >= 4 THEN distance + 15
    ELSE IF distance = lastDistances[i + 1] + delta
    THEN IF i = 0 THEN (IF delta = 0 - 1 THEN 4 ELSE 5)
         ELSE IF delta = 0 - 1 THEN 10 + (i - 1) * 2 ELSE 10 + (i - 1) * 2 + 1
    ELSE IF delta = 0 - 1 THEN NearCode(distance, lastDistances, i, 1)
    ELSE NearCode(distance, lastDistances, i + 1, 0 - 1)

getDistanceCode(distance, lastDistances) ==
    With(FirstEqual(distance, lastDistances, 1), LAMBDA i :
        IF i # 0 THEN (IF i = 1 THEN 0 ELSE (i - 1) + 3)
        ELSE NearCode(distance, lastDistances, 0, 0 - 1))

getDistanceExtra(distCode) ==
    IF distCode < 16 THEN [base |-> 0, extra |-> 0, offset |-> 0]
    ELSE With(distCode - 15, LAMBDA d :
         With(Max(0, FloorLog2(d) - 1), LAMBDA nbits :
         With(Shl(2 + And32(Sar(d, nbits), 1), nbits), LAMBDA off :
              [base |-> off - 3, extra |-> nbits, offset |-> d - off])))

\* distCounts after "if (!useLastDist && distCode >= 16) distCounts[dcode]++"
\* for one command
DistCounts(distCode) ==
    IF distCode # 0 /\ distCode >= 16
    THEN [ZeroArray(544) EXCEPT ![Min(distCode - 16, 544 - 1) + 1] = 1]
    ELSE ZeroArray(544)

---------------------------------------------------------------------------
(* The inputs of the calls explored *)

\* the inputs of brotliCompress: every sequence over ByteVals up to MaxLen,
\* and patterned inputs around the lengths where ringBufferPos first wraps
\* and where a second meta-block starts
Pattern(n) == [i \in 1..n |-> (i * 37 + 11) % 256]

\* an input in which the matcher finds a match: one byte, then 7 copies of it
RepeatedInput == [i \in 1..8 |-> 97]

Inputs ==
    UNION {[1..n -> ByteVals] : n \in 0..MaxLen}
      \cup {Pattern(n) : n \in {15, 16, 17, maxBlockSize, maxBlockSize + 1}}
      \cup {RepeatedInput}

\* a stream written field by field: fields is a sequence of <<value, numBits>>
RECURSIVE WriteFields(_, _, _, _)
WriteFields(w, fields, lo, hi) ==
    IF hi < lo THEN w
    ELSE IF lo = hi THEN writeBits(w, fields[lo][1], fields[lo][2])
    ELSE LET mid == (lo + hi) \div 2
             left == WriteFields(w, fields, lo, mid)
         IN  IF left.bitsUsed = left.bitsUsed
             THEN WriteFields(left, fields, mid + 1, hi)
             ELSE left

StreamOf(fields) == alignToByte(WriteFields(NewBitWriter, fields, 1, Len(fields))).output

\* fields of hand-written streams, in the layout brotliDecompress reads
\* WBITS = 16
FWbits16 == << <<0, 1>> >>
\* a last meta-block of mlen bytes: ISLAST = 1, MNIBBLES = 0, MLEN - 1
FLastHeader(mlen) == << <<1, 1>>, <<0, 2>>, <<mlen - 1, 16>> >>
\* a meta-block that is not the last: ISLAST = 0, MNIBBLES = 0, MLEN - 1, ISUNCOMPRESSED
FHeader(mlen, uncompressed) == << <<0, 1>>, <<0, 2>>, <<mlen - 1, 16>>, <<uncompressed, 1>> >>
\* one block type per category, NPOSTFIX = 0, NDIRECT = 0, context mode LSB6,
\* one literal tree, one distance tree
FPlainBlockInfo == << <<0, 1>>, <<0, 1>>, <<0, 1>>, <<0, 2>>, <<0, 4>>, <<0, 2>>, <<0, 1>>, <<0, 1>> >>
\* the same with context mode Signed
FSignedBlockInfo == << <<0, 1>>, <<0, 1>>, <<0, 1>>, <<0, 2>>, <<0, 4>>, <<3, 2>>, <<0, 1>>, <<0, 1>> >>
\* a simple prefix code of one symbol, and of two symbols
FSimple1(sym, bits) == << <<1, 2>>, <<0, 2>>, <<sym, bits>> >>
FSimple2(s1, s2, bits) == << <<1, 2>>, <<1, 2>>, <<s1, bits>>, <<s2, bits>> >>
\* the empty last meta-block
FEmptyLast == << <<1, 1>>, <<1, 1>> >>

\* one command (insert 1, copy 4, last distance) as the whole meta-block
StreamLastDistanceFirst ==
    StreamOf(FWbits16 \o FLastHeader(5) \o FPlainBlockInfo
             \o FSimple1(97, 8) \o FSimple1(138, 10) \o FSimple1(0, 6))

\* insert 16 literals (command 9, extra 2), then copy 4 at the last distance
\* (command 130)
StreamInsertThenCopy ==
    StreamOf(FWbits16 \o FLastHeader(20) \o FPlainBlockInfo
             \o FSimple2(97, 98, 8) \o FSimple2(9, 130, 10) \o FSimple1(0, 6)
             \o << <<0, 1>>, <<2, 2>> >>
             \o [i \in 1..16 |-> <<i % 2, 1>>]
             \o << <<1, 1>> >>)

\* insert 10 literals and copy 2 at an explicit distance (command 256), the
\* distance symbol 17 with its 1 extra bit
StreamExplicitDistance ==
    StreamOf(FWbits16 \o FLastHeader(12) \o FPlainBlockInfo
             \o FSimple1(98, 8) \o FSimple1(256, 10) \o FSimple2(16, 17, 6)
             \o << <<0, 2>>, <<1, 1>>, <<1, 1>> >>)

\* an uncompressed meta-block of 3 bytes, a skip block with 2 skipped
\* bytes, and the empty last meta-block
StreamRawThenSkip ==
    StreamOf(FWbits16 \o FHeader(3, 1)) \o <<1, 2, 3>>
      \o StreamOf(<< <<0, 1>>, <<3, 2>>, <<0, 1>>, <<1, 1>>, <<1, 2>> >>) \o <<7, 8>>
      \o StreamOf(FEmptyLast)

\* a compressed meta-block that is not the last, then the empty last one
StreamCompressedThenEmpty ==
    StreamOf(FWbits16 \o FHeader(2, 0) \o FPlainBlockInfo
             \o FSimple1(99, 8) \o FSimple1(2, 10) \o FSimple1(0, 6)
             \o FEmptyLast)

\* a compressed meta-block that is not the last and ends inside a byte, an
\* uncompressed meta-block of 3 bytes, and the empty last meta-block
StreamCompressedThenRaw ==
    StreamOf(FWbits16 \o FHeader(2, 0) \o FPlainBlockInfo
             \o FSimple1(99, 8) \o FSimple1(2, 10) \o FSimple1(0, 6)
             \o FHeader(3, 1))
      \o <<1, 2, 3>> \o StreamOf(FEmptyLast)

\* a skip block with its reserved bit set and nothing to skip, then the
\* empty last meta-block
StreamReservedBit ==
    StreamOf(FWbits16 \o << <<0, 1>>, <<3, 2>>, <<1, 1>>, <<0, 1>> >> \o FEmptyLast)

\* two literals (command 2) under context mode Signed
StreamSignedContext ==
    StreamOf(FWbits16 \o FLastHeader(2) \o FSignedBlockInfo
             \o FSimple1(99, 8) \o FSimple1(2, 10) \o FSimple1(0, 6))

\* an uncompressed meta-block of 3 bytes, then a compressed last meta-block
\* of two literals
StreamRawThenCompressed ==
    StreamOf(FWbits16 \o FHeader(3, 1)) \o <<1, 2, 3>>
      \o StreamOf(FLastHeader(2) \o FPlainBlockInfo
                  \o FSimple1(99, 8) \o FSimple1(2, 10) \o FSimple1(0, 6))

\* a meta-block of 2 bytes whose only command symbol is 0: insert 0, copy 0
StreamEmptyCommand ==
    StreamOf(FWbits16 \o FLastHeader(2) \o FPlainBlockInfo
             \o FSimple1(99, 8) \o FSimple1(0, 10) \o FSimple1(0, 6))

\* a meta-block of 3 bytes whose one command inserts 1 and copies 4: the copy
\* is cut after 2 bytes
StreamCopyCut ==
    StreamOf(FWbits16 \o FLastHeader(3) \o FPlainBlockInfo
             \o FSimple1(97, 8) \o FSimple1(138, 10) \o FSimple1(0, 6))

\* a meta-block of 1 byte whose one command inserts 2 literals: the insert is
\* cut after 1 byte
StreamInsertCut ==
    StreamOf(FWbits16 \o FLastHeader(1) \o FPlainBlockInfo
             \o FSimple1(99, 8) \o FSimple1(2, 10) \o FSimple1(0, 6))

\* two commands (256: insert 10, copy 2, explicit distance), each of which
\* pushes a distance
StreamTwoDistances ==
    StreamOf(FWbits16 \o FLastHeader(24) \o FPlainBlockInfo
             \o FSimple1(98, 8) \o FSimple1(256, 10) \o FSimple1(17, 6)
             \o << <<0, 2>>, <<0, 2>> >>)

\* every proper prefix of a stream: the stream cut short
Prefixes(stream) == {SubSeq(stream, 1, n) : n \in 0..(Len(stream) - 1)}

\* the streams handed to brotliDecompress directly
Streams ==
    {StreamLastDistanceFirst, StreamInsertThenCopy, StreamExplicitDistance,
     StreamRawThenSkip, StreamCompressedThenEmpty, StreamCompressedThenRaw,
     StreamReservedBit, StreamSignedContext, StreamRawThenCompressed,
     StreamEmptyCommand, StreamCopyCut, StreamInsertCut,
     StreamTwoDistances}
      \cup Prefixes(WriteLast(WriteBlock(WriteWBits, <<97>>, 0)).output)
      \cup Prefixes(StreamInsertThenCopy)

---------------------------------------------------------------------------
(* The calls, step by step *)

Init ==
    /\ pc = "idle"
    /\ call = "none"
    /\ input = <<>>
    /\ bw = NewBitWriter
    /\ offset = 0
    /\ result = <<>>
    /\ br = NewBitReader(<<>>)
    /\ output = <<>>
    /\ windowBits = 0
    /\ ringBuffer = <<>>
    /\ ringBufferPos = 0
    /\ distRingBuffer = <<4, 11, 15, 16>>
    /\ distRingBufferIdx = 0
    /\ isLast = FALSE
    /\ metaBlockLen = 0
    /\ mb = NoMetaBlock
    /\ cmd = NoCommand
    /\ fn = <<>>

\* brotliCompress(x), up to the loop of brotliCompressUncompressed or, for the
\* empty input, to its return
BrotliCompress ==
    /\ pc = "idle"
    /\ \E x \in Inputs :
        /\ input' = x
        /\ IF Len(x) = 0
           THEN /\ bw' = CompressEmpty
                /\ result' = toUint8Array(CompressEmpty)
                /\ pc' = "compressed"
           ELSE /\ bw' = WriteWBits
                /\ result' = result
                /\ pc' = "encode"
    /\ call' = "compress"
    /\ offset' = 0
    /\ UNCHANGED <<decVars, fn>>

\* one iteration of "while (offset < input.length)"
CompressBlock ==
    /\ pc = "encode"
    /\ offset < Len(input)
    /\ bw' = WriteBlock(bw, input, offset)
    /\ offset' = offset + BlockSize(input, offset)
    /\ UNCHANGED <<pc, call, input, result>>
    /\ UNCHANGED <<decVars, fn>>

\* the loop is left: the empty last meta-block, and the return
CompressFinish ==
    /\ pc = "encode"
    /\ ~(offset < Len(input))
    /\ bw' = WriteLast(bw)
    /\ result' = toUint8Array(WriteLast(bw))
    /\ pc' = "compressed"
    /\ UNCHANGED <<call, input, offset>>
    /\ UNCHANGED <<decVars, fn>>

\* a start of brotliDecompress that takes the distance ring buffer as it finds it
DecompressStartKeepingDistances(data) ==
    LET w == ReadWindowBits(NewBitReader(data))
    IN  /\ br' = w.br
        /\ output' = <<>>
        /\ windowBits' = w.v
        /\ ringBuffer' = <<>>
        /\ ringBufferPos' = 0
        /\ UNCHANGED <<distRingBuffer, distRingBufferIdx>>
        /\ isLast' = FALSE
        /\ metaBlockLen' = 0
        /\ mb' = NoMetaBlock
        /\ cmd' = NoCommand
        /\ pc' = "header"

\* brotliDecompress(data) up to its meta-block loop
DecompressStart(data) ==
    LET w == ReadWindowBits(NewBitReader(data))
    IN  /\ br' = w.br
        /\ output' = <<>>
        /\ windowBits' = w.v
        /\ ringBuffer' = <<>>
        /\ ringBufferPos' = 0
        /\ distRingBuffer' = <<4, 11, 15, 16>>
        /\ distRingBufferIdx' = 0
        /\ isLast' = FALSE
        /\ metaBlockLen' = 0
        /\ mb' = NoMetaBlock
        /\ cmd' = NoCommand
        /\ pc' = "header"

\* the round trip: brotliDecompress on what brotliCompress returned
DecompressResult ==
    /\ pc = "compressed"
    /\ DecompressStart(result)
    /\ call' = "roundtrip"
    /\ UNCHANGED <<input, bw, offset, result, fn>>

\* brotliDecompress on a stream of the caller's
BrotliDecompress ==
    /\ pc = "idle"
    /\ \E y \in Streams : DecompressStart(y)
    /\ call' = "decompress"
    /\ UNCHANGED <<input, bw, offset, result, fn>>

\* "while (!isLast)" after a meta-block: the next header, or the return
LoopOrReturn(last, out) ==
    /\ pc' = IF last THEN "done" ELSE "header"
    /\ result' = IF last THEN ToUint8Array(out) ELSE result

\* ISLAST = 1 and ISEMPTY = 1: break, and the return
EmptyLastMetaBlock ==
    /\ pc = "header"
    /\ LET h == MetaBlockHeader(br)
       IN  /\ h.kind = "emptylast"
           /\ br' = h.br
           /\ isLast' = h.isLast
    /\ pc' = "done"
    /\ result' = ToUint8Array(output)
    /\ UNCHANGED <<call, output, windowBits, ringBuffer, ringBufferPos, distRingBuffer,
                   distRingBufferIdx, metaBlockLen, mb, cmd>>
    /\ UNCHANGED <<encVars, fn>>

\* MNIBBLES = 3: the skip block, and continue
SkipMetaBlock ==
    /\ pc = "header"
    /\ LET h == MetaBlockHeader(br)
       IN  /\ h.kind = "skip"
           /\ br' = h.br
           /\ isLast' = h.isLast
           /\ metaBlockLen' = 0
           /\ LoopOrReturn(h.isLast, output)
    /\ UNCHANGED <<call, output, windowBits, ringBuffer, ringBufferPos, distRingBuffer,
                   distRingBufferIdx, mb, cmd>>
    /\ UNCHANGED <<encVars, fn>>

\* ISUNCOMPRESSED = 1: the raw bytes, and continue
UncompressedMetaBlock ==
    /\ pc = "header"
    /\ LET h == MetaBlockHeader(br)
           copied == RawCopy([rb |-> ringBuffer, p |-> ringBufferPos], h.br.data,
                             h.br.pos, windowSize, 0, h.mlen - 1)
       IN  /\ h.kind = "uncompressed"
           /\ br' = [h.br EXCEPT !.pos = @ + h.mlen]
           /\ isLast' = h.isLast
           /\ metaBlockLen' = h.mlen
           /\ output' = output \o RawBytes(h.br.data, h.br.pos, h.mlen)
           /\ ringBuffer' = copied.rb
           /\ ringBufferPos' = copied.p
    /\ pc' = "header"
    /\ UNCHANGED <<call, result, windowBits, distRingBuffer, distRingBufferIdx, mb, cmd>>
    /\ UNCHANGED <<encVars, fn>>

\* a compressed meta-block: everything up to the body loop
CompressedMetaBlock ==
    /\ pc = "header"
    /\ LET h == MetaBlockHeader(br)
           c == CompressedHeader(h.br)
       IN  /\ h.kind = "compressed"
           /\ br' = c.br
           /\ isLast' = h.isLast
           /\ metaBlockLen' = h.mlen
           /\ mb' = c.mb
           /\ pc' = IF c.err THEN "error" ELSE "body"
    /\ cmd' = NoCommand
    /\ UNCHANGED <<call, result, output, windowBits, ringBuffer, ringBufferPos,
                   distRingBuffer, distRingBufferIdx>>
    /\ UNCHANGED <<encVars, fn>>

\* the body loop: the command block switch, the command symbol and its lengths
DecodeCommand ==
    /\ AtLoopTop
    /\ mb.metaBlockBytesWritten < metaBlockLen
    /\ mb.commands < MaxCommands
    /\ LET sw == SwitchBlock(br, mb.commandBlockLength, mb.commandBlockType,
                             mb.commandBlockTypeTable, mb.commandBlockLengthTable,
                             mb.numCommandBlockTypes)
           cmdCode == readHuffmanSymbol(sw.br, TableAt(mb.commandTables, sw.type))
           c == decodeInsertAndCopy(cmdCode.br, cmdCode.v)
           failed == sw.err \/ cmdCode.err \/ c.err
       IN  /\ br' = IF sw.err THEN sw.br ELSE IF cmdCode.err THEN cmdCode.br ELSE c.br
           /\ mb' = [mb EXCEPT !.commandBlockType = sw.type,
                               !.commandBlockLength = sw.length,
                               !.commands = @ + 1]
           /\ cmd' = IF failed THEN cmd
                     ELSE [cmdCode |-> cmdCode.v, insertLen |-> c.insertLen,
                           copyLen |-> c.copyLen, distanceCode |-> c.distanceCode,
                           i |-> 0, distance |-> 0, copyFrom |-> 0]
           /\ pc' = IF failed THEN "error" ELSE "insert"
    /\ UNCHANGED <<call, result, output, windowBits, ringBuffer, ringBufferPos,
                   distRingBuffer, distRingBufferIdx, isLast, metaBlockLen>>
    /\ UNCHANGED <<encVars, fn>>

\* one iteration of the insert loop: one literal
InsertLiteral ==
    /\ pc = "insert"
    /\ InsertLoopRuns
    /\ LET sw == SwitchBlock(br, mb.literalBlockLength, mb.literalBlockType,
                             mb.literalBlockTypeTable, mb.literalBlockLengthTable,
                             mb.numLiteralBlockTypes)
           contextMode == At(mb.contextModes, sw.type)
           context == LiteralContext(contextMode, mb.prevByte1, mb.prevByte2)
           treeIdx == At(mb.literalContextMap, sw.type * 64 + context)
           literal == readHuffmanSymbol(sw.br, TableAt(mb.literalTables, treeIdx))
           failed == sw.err \/ literal.err
       IN  /\ br' = IF sw.err THEN sw.br ELSE literal.br
           /\ pc' = IF failed THEN "error" ELSE "insert"
           /\ IF failed
              THEN UNCHANGED <<mb, cmd, output, ringBuffer, ringBufferPos>>
              ELSE /\ output' = Append(output, literal.v)
                   /\ ringBuffer' = RingStore(ringBuffer, windowSize, ringBufferPos, literal.v)
                   /\ ringBufferPos' = NextRingPos(ringBufferPos, windowSize)
                   /\ mb' = [mb EXCEPT !.literalBlockType = sw.type,
                                       !.literalBlockLength = sw.length,
                                       !.prevByte2 = mb.prevByte1,
                                       !.prevByte1 = literal.v,
                                       !.metaBlockBytesWritten = @ + 1]
                   /\ cmd' = [cmd EXCEPT !.i = @ + 1]
    /\ UNCHANGED <<call, result, windowBits, distRingBuffer, distRingBufferIdx, isLast,
                   metaBlockLen>>
    /\ UNCHANGED <<encVars, fn>>

\* after the insert loop, with bytes of the meta-block left: the distance, the
\* distance ring buffer, the copy source
ResolveDistance ==
    /\ pc = "insert"
    /\ ~InsertLoopRuns
    /\ mb.metaBlockBytesWritten < metaBlockLen
    /\ LET d == ResolvedDistance(br, mb, cmd, distRingBuffer, distRingBufferIdx)
       IN  /\ br' = d.br
           /\ pc' = IF d.err THEN "error" ELSE "copy"
           /\ IF d.err
              THEN UNCHANGED <<mb, cmd, distRingBuffer, distRingBufferIdx>>
              ELSE /\ mb' = [mb EXCEPT !.distanceBlockType = d.type,
                                       !.distanceBlockLength = d.length]
                   /\ distRingBuffer' =
                        IF cmd.distanceCode # 0
                        THEN PushDistance(distRingBuffer, distRingBufferIdx, d.v)
                        ELSE distRingBuffer
                   /\ distRingBufferIdx' =
                        IF cmd.distanceCode # 0 THEN distRingBufferIdx + 1
                        ELSE distRingBufferIdx
                   /\ cmd' = [cmd EXCEPT !.i = 0, !.distance = d.v,
                                         !.copyFrom = CopySource(ringBufferPos, d.v, windowSize)]
    /\ UNCHANGED <<call, result, output, windowBits, ringBuffer, ringBufferPos, isLast,
                   metaBlockLen>>
    /\ UNCHANGED <<encVars, fn>>

\* one iteration of the copy loop: one byte
CopyByte ==
    /\ pc = "copy"
    /\ CopyLoopRuns
    /\ LET byte == RingAt(ringBuffer, cmd.copyFrom)
       IN  /\ output' = Append(output, byte)
           /\ ringBuffer' = RingStore(ringBuffer, windowSize, ringBufferPos, byte)
           /\ ringBufferPos' = NextRingPos(ringBufferPos, windowSize)
           /\ cmd' = [cmd EXCEPT !.i = @ + 1,
                                 !.copyFrom = NextRingPos(cmd.copyFrom, windowSize)]
           /\ mb' = [mb EXCEPT !.prevByte2 = mb.prevByte1,
                               !.prevByte1 = byte,
                               !.metaBlockBytesWritten = @ + 1]
    /\ UNCHANGED <<pc, call, result, br, windowBits, distRingBuffer, distRingBufferIdx,
                   isLast, metaBlockLen>>
    /\ UNCHANGED <<encVars, fn>>

\* the body loop is left (its test fails, or the break after the insert
\* loop): the next meta-block, or the return
EndMetaBlock ==
    /\ \/ AtLoopTop
       \/ pc = "insert" /\ ~InsertLoopRuns
    /\ ~(mb.metaBlockBytesWritten < metaBlockLen)
    /\ LoopOrReturn(isLast, output)
    /\ mb' = NoMetaBlock
    /\ cmd' = NoCommand
    /\ UNCHANGED <<call, br, output, windowBits, ringBuffer, ringBufferPos,
                   distRingBuffer, distRingBufferIdx, isLast, metaBlockLen>>
    /\ UNCHANGED <<encVars, fn>>

Next ==
    \/ BrotliCompress
    \/ CompressBlock
    \/ CompressFinish
    \/ DecompressResult
    \/ BrotliDecompress
    \/ EmptyLastMetaBlock
    \/ SkipMetaBlock
    \/ UncompressedMetaBlock
    \/ CompressedMetaBlock
    \/ DecodeCommand
    \/ InsertLiteral
    \/ ResolveDistance
    \/ CopyByte
    \/ EndMetaBlock

Spec == Init /\ [][Next]_vars

---------------------------------------------------------------------------
(* One call after another *)

\* The call has returned or thrown, the caller has taken what it returned and
\* makes its next call: what the call left in its objects is still there, and
\* nothing of it is handed to the next call. (Calls are explored after calls
\* of brotliCompress on inputs up to MaxLen.)
NextCall ==
    /\ pc \in {"compressed", "done", "error"}
    /\ Len(input) <= MaxLen
    /\ pc' = "idle"
    /\ call' = "none"
    /\ result' = <<>>
    /\ UNCHANGED <<br, output, windowBits, ringBuffer, ringBufferPos, distRingBuffer,
                   distRingBufferIdx, isLast, metaBlockLen, mb, cmd>>
    /\ UNCHANGED <<encVars, fn>>

CallsSpec == Init /\ [][Next \/ NextCall]_vars

---------------------------------------------------------------------------
(* decodeInsertAndCopy on its own *)

\* the symbols of the command alphabet, and the bytes the extra bits are
\* read from: none, all ones, a mix
CommandSymbols == 0..703
ExtraBitsData ==
    {<<>>, <<255, 255, 255, 255, 255, 255, 255>>, <<165, 90, 60, 195, 15, 240, 129>>}

\* decodeInsertAndCopy(br, cmdCode) on a new reader
DecodeInsertAndCopy ==
    /\ pc = "idle"
    /\ \E cmdCode \in CommandSymbols, data \in ExtraBitsData :
          LET c == decodeInsertAndCopy(NewBitReader(data), cmdCode)
          IN  /\ br' = c.br
              /\ cmd' = [NoCommand EXCEPT !.cmdCode = cmdCode,
                                          !.insertLen = c.insertLen,
                                          !.copyLen = c.copyLen,
                                          !.distanceCode = c.distanceCode]
              /\ pc' = IF c.err THEN "error" ELSE "decoded"
    /\ call' = "decodeInsertAndCopy"
    /\ UNCHANGED <<result, output, windowBits, ringBuffer, ringBufferPos, distRingBuffer,
                   distRingBufferIdx, isLast, metaBlockLen, mb>>
    /\ UNCHANGED <<encVars, fn>>

CommandSpec == Init /\ [][DecodeInsertAndCopy]_vars

---------------------------------------------------------------------------
(* getCmdCode and decodeInsertAndCopy on one command *)

\* the insert and copy length codes
LengthCodes == 0..23

\* getCmdCode(insCode, copyCode, useLastDistance)
CallGetCmdCode ==
    /\ pc = "idle"
    /\ call = "none"
    /\ \E insCode \in LengthCodes, copyCode \in LengthCodes, useLastDistance \in BOOLEAN :
          fn' = [insCode |-> insCode, copyCode |-> copyCode,
                 useLastDistance |-> useLastDistance,
                 cmdCode |-> getCmdCode(insCode, copyCode, useLastDistance)]
    /\ pc' = "coded"
    /\ call' = "getCmdCode"
    /\ UNCHANGED <<encVars, result, decVars>>

\* decodeInsertAndCopy(br, cmdCode) on the code returned, with a new reader
DecodeCmdCode ==
    /\ pc = "coded"
    /\ call = "getCmdCode"
    /\ \E data \in ExtraBitsData :
          LET c == decodeInsertAndCopy(NewBitReader(data), fn.cmdCode)
          IN  /\ br' = c.br
              /\ cmd' = [NoCommand EXCEPT !.cmdCode = fn.cmdCode,
                                          !.insertLen = c.insertLen,
                                          !.copyLen = c.copyLen,
                                          !.distanceCode = c.distanceCode]
              /\ pc' = IF c.err THEN "error" ELSE "decoded"
    /\ UNCHANGED <<call, result, output, windowBits, ringBuffer, ringBufferPos,
                   distRingBuffer, distRingBufferIdx, isLast, metaBlockLen, mb>>
    /\ UNCHANGED <<encVars, fn>>

CmdCodeSpec == Init /\ [][CallGetCmdCode \/ DecodeCmdCode]_vars

---------------------------------------------------------------------------
(* The distance of one copy command, from the encoder to decodeDistance *)

\* the distances of the copy commands: every short one, and those around the
\* powers of two up to maxDistance
Distances ==
    (1..130) \cup {Pow2(k) - 1 : k \in 8..22} \cup {Pow2(k) : k \in 8..21}
             \cup {Pow2(k) + 1 : k \in 8..21} \cup {3 * Pow2(k) : k \in 6..20}
             \cup {maxDistance}

\* lastDistances: as the block starts, and after one copy at distance 100
LastDistances == {<<4, 11, 15, 16>>, <<100, 4, 11, 15>>}

\* getDistanceCode(distance, lastDistances) for a copy command
CallGetDistanceCode ==
    /\ pc = "idle"
    /\ call = "none"
    /\ \E distance \in Distances, lastDistances \in LastDistances :
          fn' = [distance |-> distance, lastDistances |-> lastDistances,
                 distCode |-> getDistanceCode(distance, lastDistances)]
    /\ pc' = "coded"
    /\ call' = "distance"
    /\ UNCHANGED <<encVars, result, decVars>>

\* the distance code of the command is emitted: the prefix code is built from
\* distCounts over the 64 distance symbols, the symbol is emitted if it has a
\* depth, and its extra bits follow. The writer is new and takes the extra
\* bits only: decodeDistance is handed the symbol
EmitDistance ==
    /\ pc = "coded"
    /\ call = "distance"
    /\ LET depths == writePrefixCode(NewBitWriter, DistCounts(fn.distCode), 64).depths
           distCodeToEmit == fn.distCode - 16
           emitted == fn.distCode # 0 /\ distCodeToEmit >= 0
                        /\ At(depths, distCodeToEmit) > 0
           distExtra == getDistanceExtra(fn.distCode)
           w == IF emitted /\ distExtra.extra > 0
                THEN writeBits(NewBitWriter, distExtra.offset, distExtra.extra)
                ELSE NewBitWriter
       IN  /\ bw' = alignToByte(w)
           /\ result' = toUint8Array(alignToByte(w))
           /\ fn' = [distance |-> fn.distance, lastDistances |-> fn.lastDistances,
                     distCode |-> fn.distCode, emitted |-> emitted,
                     symbol |-> distCodeToEmit,
                     extra |-> IF emitted THEN distExtra.extra ELSE 0]
    /\ pc' = "emitted"
    /\ UNCHANGED <<call, input, offset, decVars>>

\* decodeDistance(br, distSymbol, 0, 0) on the symbol emitted, with a new
\* reader on the extra bits
DecodeEmittedDistance ==
    /\ pc = "emitted"
    /\ call = "distance"
    /\ fn.emitted
    /\ LET d == decodeDistance(NewBitReader(result), fn.symbol, 0, 0)
       IN  /\ br' = d.br
           /\ cmd' = [NoCommand EXCEPT !.distanceCode = fn.symbol, !.distance = d.v]
    /\ pc' = "decoded"
    /\ UNCHANGED <<call, result, output, windowBits, ringBuffer, ringBufferPos,
                   distRingBuffer, distRingBufferIdx, isLast, metaBlockLen, mb>>
    /\ UNCHANGED <<encVars, fn>>

DistanceSpec ==
    Init /\ [][CallGetDistanceCode \/ EmitDistance \/ DecodeEmittedDistance]_vars

---------------------------------------------------------------------------
(* findMatches, one iteration of its loop at a time *)

\* the longest input enumerated for findMatches
MaxMatchInput == 11

\* the inputs of findMatches: every sequence of two byte values up to
\* MaxMatchInput bytes, and one whose windows at 0 and 4 differ and have the
\* same hash
MatchVals == {97, 98}
CollidingInput == <<97, 97, 255, 97, 98, 0, 97, 98, 97, 97, 255, 97, 98>>
MatchInputs ==
    UNION {[1..n -> MatchVals] : n \in 0..MaxMatchInput} \cup {CollidingInput}

\* the values of maxDistance: the one of brotliCompressBlock, and short ones
MaxDistances == {maxDistance, 2, 5}

\* findMatches(input, maxDistance) up to its loop
CallFindMatches ==
    /\ pc = "idle"
    /\ call = "none"
    /\ \E in \in MatchInputs, limit \in MaxDistances :
          fn' = [maxDistance |-> limit, st |-> FindMatchesStart(in), commands |-> <<>>]
    /\ pc' = "matching"
    /\ call' = "findMatches"
    /\ UNCHANGED <<encVars, result, decVars>>

\* one iteration of "while (pos < input.length)"
FindMatchesIteration ==
    /\ pc = "matching"
    /\ call = "findMatches"
    /\ fn.st.pos < Len(fn.st.input)
    /\ fn' = [fn EXCEPT !.st = FindMatchesStep(fn.st, fn.maxDistance)]
    /\ UNCHANGED <<pc, call, encVars, result, decVars>>

\* the loop is left: the remaining literals, and the return
FindMatchesReturns ==
    /\ pc = "matching"
    /\ call = "findMatches"
    /\ ~(fn.st.pos < Len(fn.st.input))
    /\ fn' = [fn EXCEPT !.commands = FindMatchesReturn(fn.st)]
    /\ pc' = "returned"
    /\ UNCHANGED <<call, encVars, result, decVars>>

MatcherSpec ==
    Init /\ [][CallFindMatches \/ FindMatchesIteration \/ FindMatchesReturns]_vars

---------------------------------------------------------------------------
(* BitWriter and BitReader on their own *)

\* the widths of the fields written, and the values written on n bits
FieldWidths == {0, 1, 5, 8, 11, 24}
FieldValues(n) == {0, Pow2(n) - 1, 10837669 % Pow2(n)}

\* bw.writeBits(v, n) on a writer that is new before the first field
WriteField ==
    /\ pc \in {"idle", "writing"}
    /\ call \in {"none", "bits"}
    /\ LET fields == IF pc = "idle" THEN <<>> ELSE fn.fields
           w == IF pc = "idle" THEN NewBitWriter ELSE bw
       IN  /\ Len(fields) < MaxFields
           /\ \E n \in FieldWidths : \E v \in FieldValues(n) :
                 /\ bw' = writeBits(w, v, n)
                 /\ fn' = [fields |-> Append(fields, <<v, n>>), read |-> <<>>]
    /\ pc' = "writing"
    /\ call' = "bits"
    /\ UNCHANGED <<input, offset, result, decVars>>

\* bw.alignToByte(), bw.toUint8Array(), and new BitReader on the bytes
AlignAndOpen ==
    /\ pc = "writing"
    /\ bw' = alignToByte(bw)
    /\ result' = toUint8Array(alignToByte(bw))
    /\ br' = NewBitReader(toUint8Array(alignToByte(bw)))
    /\ pc' = "reading"
    /\ UNCHANGED <<call, input, offset, output, windowBits, ringBuffer, ringBufferPos,
                   distRingBuffer, distRingBufferIdx, isLast, metaBlockLen, mb, cmd, fn>>

\* br.readBits(n) with the width of the next field
ReadField ==
    /\ pc = "reading"
    /\ Len(fn.read) < Len(fn.fields)
    /\ LET r == readBits(br, fn.fields[Len(fn.read) + 1][2])
       IN  /\ br' = r.br
           /\ fn' = [fn EXCEPT !.read = Append(@, r.v)]
    /\ UNCHANGED <<pc, call, input, bw, offset, result, output, windowBits, ringBuffer,
                   ringBufferPos, distRingBuffer, distRingBufferIdx, isLast, metaBlockLen,
                   mb, cmd>>

BitsSpec == Init /\ [][WriteField \/ AlignAndOpen \/ ReadField]_vars

---------------------------------------------------------------------------
(* buildHuffmanCode on its own *)

\* the largest alphabet: the insert-and-copy alphabet
MaxAlphabet == 704

\* the count of the k-th used symbol out of n
Shapes == {"equal", "rising", "falling", "steep"}
ShapedCount(shape, k, n) ==
    CASE shape = "equal" -> 1
      [] shape = "rising" -> k
      [] shape = "falling" -> n + 1 - k
      [] shape = "steep" -> Pow2(Min(k, 20))

\* a frequency vector over maxSymbols symbols of which n are used: the first
\* n, or the last n
Histogram(maxSymbols, n, shape, last) ==
    SubSeq([i \in 1..maxSymbols |->
               IF last
               THEN IF i > maxSymbols - n
                    THEN ShapedCount(shape, i - (maxSymbols - n), n) ELSE 0
               ELSE IF i <= n THEN ShapedCount(shape, i, n) ELSE 0], 1, maxSymbols)

\* the used symbols and the alphabets of the calls: every number of used
\* symbols in an alphabet of its own size, and the shapes in the full alphabet
\* for some of them
FullAlphabetUsed == {2, 3, 4, 5, 7, 8, 9, 16, 17, 100, 256, 257, 703, 704}

\* a caller has counted a histogram
CountHistogram ==
    /\ pc = "idle"
    /\ call = "none"
    /\ \E n \in 2..MaxAlphabet : \E shape \in Shapes : \E last \in BOOLEAN :
          \E maxSymbols \in {n, MaxAlphabet} :
          /\ maxSymbols = MaxAlphabet => n \in FullAlphabetUsed
          /\ maxSymbols = n => shape = "rising" /\ ~last
          /\ fn' = [counts |-> Histogram(maxSymbols, n, shape, last),
                    maxSymbols |-> maxSymbols]
    /\ pc' = "counted"
    /\ call' = "huffman"
    /\ UNCHANGED <<encVars, result, decVars>>

\* buildHuffmanCode(counts, maxSymbols, 15)
CallBuildHuffmanCode ==
    /\ pc = "counted"
    /\ call = "huffman"
    /\ fn' = [counts |-> fn.counts, maxSymbols |-> fn.maxSymbols,
              built |-> BuildHuffmanCode(fn.counts, fn.maxSymbols, 15, MaxRounds)]
    /\ pc' = "built"
    /\ UNCHANGED <<call, encVars, result, decVars>>

HuffmanSpec == Init /\ [][CountHistogram \/ CallBuildHuffmanCode]_vars

---------------------------------------------------------------------------
(* writePrefixCode and readPrefixCode on one code *)

\* the symbols emitted with one code
MaxEmitted == 2

\* the alphabets of the literal, command and distance codes
Alphabets == {256, 704, 64}

\* the symbols a histogram may use, and the counts it gives them
UsableSymbols(alphabetSize) == {0, 1, 2, 37, alphabetSize - 1}
SparseHistogram(alphabetSize, used, shape) ==
    SubSeq([i \in 1..alphabetSize |->
               IF (i - 1) \in used
               THEN ShapedCount(shape, 1 + Cardinality({s \in used : s < i - 1}),
                                Cardinality(used))
               ELSE 0], 1, alphabetSize)

\* the bits a writer has taken
BitsWritten(w) == 8 * Len(w.output) + w.bitsUsed

\* a caller has counted a histogram with 1 to 4 symbols
CountSymbols ==
    /\ pc = "idle"
    /\ call = "none"
    /\ \E alphabetSize \in Alphabets : \E used \in SUBSET UsableSymbols(alphabetSize) :
          \E shape \in {"equal", "rising", "falling"} :
          /\ Cardinality(used) \in 1..4
          /\ fn' = [counts |-> SparseHistogram(alphabetSize, used, shape),
                    numSymbols |-> alphabetSize]
    /\ pc' = "counted"
    /\ call' = "prefix"
    /\ UNCHANGED <<encVars, result, decVars>>

\* writePrefixCode(bw, counts, numSymbols) on a new writer
CallWritePrefixCode ==
    /\ pc = "counted"
    /\ call = "prefix"
    /\ LET code == writePrefixCode(NewBitWriter, fn.counts, fn.numSymbols)
       IN  /\ bw' = code.bw
           /\ fn' = [counts |-> fn.counts, numSymbols |-> fn.numSymbols,
                     depths |-> code.depths, codes |-> code.codes,
                     header |-> BitsWritten(code.bw),
                     emitted |-> <<>>, written |-> <<>>]
    /\ pc' = "emitting"
    /\ UNCHANGED <<call, input, offset, result, decVars>>

\* "if (depths[s] > 0) bw.writeBits(codes[s], depths[s])" for a symbol counted
EmitSymbol ==
    /\ pc = "emitting"
    /\ call = "prefix"
    /\ Len(fn.emitted) < MaxEmitted
    /\ \E s \in 0..(fn.numSymbols - 1) :
          /\ fn.counts[s + 1] > 0
          /\ LET w == IF fn.depths[s + 1] > 0
                      THEN writeBits(bw, CodeAt(fn.codes, s, 1), fn.depths[s + 1])
                      ELSE bw
             IN  /\ bw' = w
                 /\ fn' = [fn EXCEPT !.emitted = Append(@, s),
                                     !.written = Append(@, BitsWritten(w))]
    /\ UNCHANGED <<pc, call, input, offset, result, decVars>>

\* bw.alignToByte(), bw.toUint8Array(); readPrefixCode(br, alphabetSize) on a
\* new reader of the bytes
CallReadPrefixCode ==
    /\ pc = "emitting"
    /\ call = "prefix"
    /\ Len(fn.emitted) > 0
    /\ bw' = alignToByte(bw)
    /\ result' = toUint8Array(alignToByte(bw))
    /\ LET code == readPrefixCode(NewBitReader(toUint8Array(alignToByte(bw))),
                                  fn.numSymbols)
       IN  /\ br' = code.br
           /\ fn' = [counts |-> fn.counts, numSymbols |-> fn.numSymbols,
                     depths |-> fn.depths, codes |-> fn.codes, header |-> fn.header,
                     emitted |-> fn.emitted, written |-> fn.written,
                     table |-> code.v, failed |-> code.err,
                     decoded |-> <<>>, consumed |-> <<>>]
    /\ pc' = "decoding"
    /\ UNCHANGED <<call, input, offset, output, windowBits, ringBuffer, ringBufferPos,
                   distRingBuffer, distRingBufferIdx, isLast, metaBlockLen, mb, cmd>>

\* readHuffmanSymbol(br, table) for the next symbol emitted
ReadSymbol ==
    /\ pc = "decoding"
    /\ call = "prefix"
    /\ ~fn.failed
    /\ Len(fn.decoded) < Len(fn.emitted)
    /\ LET s == readHuffmanSymbol(br, fn.table)
       IN  /\ br' = s.br
           /\ fn' = [fn EXCEPT !.failed = s.err,
                               !.decoded = IF s.err THEN @ ELSE Append(@, s.v),
                               !.consumed = IF s.err THEN @
                                            ELSE Append(@, s.br.pos * 8 - s.br.bitsAvailable)]
    /\ UNCHANGED <<pc, call, input, bw, offset, result, output, windowBits, ringBuffer,
                   ringBufferPos, distRingBuffer, distRingBufferIdx, isLast, metaBlockLen,
                   mb, cmd>>

PrefixSpec ==
    Init /\ [][CountSymbols \/ CallWritePrefixCode \/ EmitSymbol \/ CallReadPrefixCode
                 \/ ReadSymbol]_vars

---------------------------------------------------------------------------
(* Properties *)

\* the calls of brotliDecompress
Decoding == call \in {"roundtrip", "decompress"}

\* the number of bits the reader r has handed out: its cursor in bits, less
\* the bits it holds in its accumulator
BitsConsumed(r) == r.pos * 8 - r.bitsAvailable

\* the decoder has read no bit that is not in its input
WithinInput == BitsConsumed(br) <= 8 * Len(br.data)

\* byte i (0-based) of a stream, 0 behind its end
StreamByte(stream, i) == IF i < Len(stream) THEN stream[i + 1] ELSE 0

\* the field of n bits at bit k of a stream, bits taken from the least
\* significant bit of each byte on (n + k % 8 <= 24)
FieldAt(stream, k, n) ==
    ((StreamByte(stream, k \div 8) + 256 * StreamByte(stream, k \div 8 + 1)
        + 65536 * StreamByte(stream, k \div 8 + 2)) \div Pow2(k % 8)) % Pow2(n)

\* From bit k of the stream on: one uncompressed meta-block for each chunk
\* of x from offset off on, then the empty last meta-block, then nothing.
RECURSIVE ChunksLaidOut(_, _, _, _)
ChunksLaidOut(stream, k, x, off) ==
    IF off < Len(x)
    THEN LET size == IF Len(x) - off < 65536 THEN Len(x) - off ELSE 65536
             start == (k + 20 + 7) \div 8
         IN  /\ FieldAt(stream, k, 1) = 0
             /\ FieldAt(stream, k + 1, 2) = 0
             /\ FieldAt(stream, k + 3, 16) = size - 1
             /\ FieldAt(stream, k + 19, 1) = 1
             /\ FieldAt(stream, k + 20, start * 8 - (k + 20)) = 0
             /\ start + size <= Len(stream)
             /\ SubSeq(stream, start + 1, start + size) = SubSeq(x, off + 1, off + size)
             /\ ChunksLaidOut(stream, (start + size) * 8, x, off + size)
    ELSE LET end == (k + 2 + 7) \div 8
         IN  /\ FieldAt(stream, k, 1) = 1
             /\ FieldAt(stream, k + 1, 1) = 1
             /\ FieldAt(stream, k + 2, end * 8 - (k + 2)) = 0
             /\ Len(stream) = end

\* C1: brotliDecompress(brotliCompress(x)) returns exactly the bytes of x, in
\* order, for every input x: the empty one, and those of several meta-blocks.
RoundTrip == (pc = "done" /\ call = "roundtrip") => result = input

\* a non-empty input has made the round trip
RoundTripDone ==
    pc = "done" /\ call = "roundtrip" /\ Len(input) > 0 /\ result = input

EncoderReturns ==
    /\ [][pc = "encode"
            => \/ pc' = "compressed" /\ offset = Len(input)
               \/ pc' = "encode" /\ offset < offset' /\ offset' <= Len(input)]_vars
    /\ [](pc = "compressed" => Len(result) > 0)

\* brotliCompress has returned from its loop
EncoderReturnedFromLoop ==
    pc = "compressed" /\ call = "compress" /\ offset = Len(input) /\ offset > 0
        /\ Len(result) > offset

\* C5 as stated: for the empty input brotliCompress returns two bytes, WBITS
\* then ISLAST = 1 then ISEMPTY = 1 then padding, and brotliDecompress of them
\* returns the empty sequence.
EmptyInputTwoByteStream ==
    /\ (pc = "compressed" /\ input = <<>>)
        => /\ Len(result) = 2
           /\ FieldAt(result, 0, 4) = 11
           /\ FieldAt(result, 4, 2) = 3
    /\ (pc = "done" /\ call = "roundtrip" /\ input = <<>>) => result = <<>>

\* C5: for the empty input brotliCompress returns one byte, the 4 bits of
\* WBITS = 22 then ISLAST = 1 then ISEMPTY = 1 then 2 bits of zero padding, and
\* brotliDecompress of it returns the empty sequence.
EmptyInputOneByteStream ==
    /\ (pc = "compressed" /\ input = <<>>)
        => /\ Len(result) = 1
           /\ FieldAt(result, 0, 4) = 11
           /\ FieldAt(result, 4, 2) = 3
           /\ FieldAt(result, 6, 2) = 0
    /\ (pc = "done" /\ call = "roundtrip" /\ input = <<>>) => result = <<>>

\* the stream of the empty input has been decoded
EmptyInputDecoded ==
    pc = "done" /\ call = "roundtrip" /\ input = <<>> /\ Len(br.data) = 1

\* C6: during brotliDecompress the ring buffer's write position is the
\* number of output bytes so far modulo windowSize, after every byte.
RingPositionTracksOutput ==
    (Decoding /\ pc \in {"header", "body", "insert", "copy", "done"})
        => ringBufferPos = Len(output) % windowSize

\* C7: every copy that is executed uses a distance from 1 to the smaller of
\* windowSize and the number of output bytes there were when it started.
CopyDistanceValid ==
    (pc = "copy" /\ cmd.i > 0)
        => /\ IsNumber(cmd.distance)
           /\ 1 <= cmd.distance
           /\ cmd.distance <= Min(Len(output) - cmd.i, windowSize)

\* C8: while no meta-block with ISLAST = 1 has been read, brotliDecompress
\* does not decode on behind the end of its input.
NoDecodingPastEndOfInput ==
    (Decoding /\ pc \in {"header", "body", "insert", "copy"} /\ ~isLast)
        => BitsConsumed(br) <= 8 * Len(br.data)

\* C9: the count of bits the reader holds is never negative: no read hands
\* out bits that are not in the input.
BufferedBitsNeverNegative == Decoding => br.bitsAvailable >= 0

\* C10: the raw bytes of an uncompressed meta-block are the MLEN whole bytes
\* of the input from byte index ceil(bits consumed / 8) on, the bits consumed
\* being those handed out up to the end of the meta-block header, whatever the
\* reader has fetched ahead.
RawBytesFromCeiling ==
    [][(pc = "header" /\ pc' = "header" /\ output' # output)
        => LET k == BitsConsumed(br)
               header == 1 + 2 + (4 + FieldAt(br.data, k + 1, 2)) * 4 + 1
               start == (k + header + 7) \div 8
           IN  /\ br'.pos = start + metaBlockLen'
               /\ output' = output \o [i \in 1..metaBlockLen' |-> At(br.data, start + i - 1)]
      ]_vars

\* an uncompressed meta-block whose header ends inside a byte, behind a
\* compressed meta-block that ends inside a byte, has been decoded
UnalignedRawBlockDecoded ==
    /\ pc = "header"
    /\ br.data = StreamCompressedThenRaw
    /\ output = <<99, 99, 1, 2, 3>>

\* C11: a skip block (MNIBBLES = 3) whose reserved bit is 1 makes
\* brotliDecompress fail: from a meta-block header of ISLAST = 0, MNIBBLES = 3
\* and reserved bit 1 the next step of the decoder is the failure.
ReservedBitRejected ==
    [][(Decoding /\ pc = "header"
          /\ BitsConsumed(br) + 4 <= 8 * Len(br.data)
          /\ FieldAt(br.data, BitsConsumed(br), 1) = 0
          /\ FieldAt(br.data, BitsConsumed(br) + 1, 2) = 3
          /\ FieldAt(br.data, BitsConsumed(br) + 3, 1) = 1)
        => pc' = "error"]_vars

\* C13: while a copy at a distance d with 1 <= d <= min(k, windowSize) runs,
\* k the number of bytes output before it, each byte it has appended is the
\* byte d places before it in the output.
CopyRepeatsOutput ==
    (pc = "copy" /\ cmd.i > 0 /\ IsNumber(cmd.distance) /\ 1 <= cmd.distance
       /\ cmd.distance <= Min(Len(output) - cmd.i, windowSize))
        => \A j \in 1..cmd.i :
              output[Len(output) - cmd.i + j] = output[Len(output) - cmd.i + j - cmd.distance]

\* C14: for a command that does not use the last distance, the step that
\* resolves the distance reads one symbol from the distance tree selected by
\* distanceContextMap[distance block type * 4 + min(copyLen - 2, 3)], and the
\* distance of the copy is what decodeDistance makes of that symbol.
ExplicitDistanceRead ==
    [][(pc = "insert" /\ pc' = "copy" /\ cmd.distanceCode # 0)
        => LET distTreeIdx == At(mb.distanceContextMap,
                                 mb'.distanceBlockType * 4 + Min(cmd.copyLen - 2, 3))
               distSymbol == readHuffmanSymbol(br, TableAt(mb.distanceTables, distTreeIdx))
               d == decodeDistance(distSymbol.br, distSymbol.v, mb.ndirect, mb.npostfix)
           IN  /\ ~distSymbol.err
               /\ br' = d.br
               /\ cmd'.distance = d.v
      ]_vars

\* C15: a command that uses the last distance before any explicit distance
\* of the stream copies at distance 4, the newest entry of the initial ring.
FirstLastDistanceIsFour ==
    (pc = "copy" /\ WithinInput /\ cmd.copyLen > 0 /\ cmd.distanceCode = 0
       /\ distRingBufferIdx = 0)
        => cmd.distance = 4

\* C16: whenever the decoder is about to read a literal, the context it
\* computes from the context mode and the two previous bytes is in 0..63, and
\* its index into the literal context map is inside the map.
LiteralContextInRange ==
    (pc = "insert" /\ InsertLoopRuns)
        => LET context == LiteralContext(At(mb.contextModes, mb.literalBlockType),
                                         mb.prevByte1, mb.prevByte2)
           IN  /\ context \in 0..63
               /\ mb.literalBlockType * 64 + context < Len(mb.literalContextMap)

\* C17: whenever the decoder is about to compute a literal context, prevByte1
\* and prevByte2 are the last and the last but one byte of the whole output,
\* 0 where there is none.
PreviousBytesOfOutput ==
    (pc = "insert" /\ InsertLoopRuns)
        => /\ mb.prevByte1 = (IF Len(output) >= 1 THEN output[Len(output)] ELSE 0)
           /\ mb.prevByte2 = (IF Len(output) >= 2 THEN output[Len(output) - 1] ELSE 0)

\* C20: in a compressed meta-block of MLEN bytes no more than MLEN commands
\* are decoded, and each command that has run to its end has appended at
\* least one byte.
CommandsEmitBytes ==
    (pc \in {"insert", "copy"} /\ WithinInput)
        => /\ mb.commands <= metaBlockLen
           /\ (pc = "copy" /\ ~CopyLoopRuns) => mb.commands <= mb.metaBlockBytesWritten

\* C18: for every command symbol in 0..127 decodeInsertAndCopy returns, with
\* copy length 0, distance code 0 and an insert length that is a number and
\* not negative.
ShortCommandsDecode ==
    (call = "decodeInsertAndCopy" /\ cmd.cmdCode < 128)
        => /\ pc = "decoded"
           /\ cmd.copyLen = 0
           /\ cmd.distanceCode = 0
           /\ IsNumber(cmd.insertLen) /\ cmd.insertLen >= 0

\* the insert code and the copy code of a command symbol in 128..703
CodesOf(c) ==
    << kInsertRangeLut[((c - 128) \div 64) + 1] + (((c - 128) \div 8) % 8),
       kCopyRangeLut[((c - 128) \div 64) + 1] + ((c - 128) % 8) >>

\* C19: for every command symbol c in 128..703 decodeInsertAndCopy returns the
\* insert length and the copy length of the codes
\* InsertRangeLut[range] + ((adjusted >> 3) & 7) and CopyRangeLut[range] +
\* (adjusted & 7), reading their extra bits and no others; both codes are in
\* 0..23; no other symbol has the same pair of codes, and every pair of
\* 0..23 x 0..23 is the pair of some symbol; the distance code is that of the
\* last distance exactly when range < 2.
LongCommandCodes ==
    (call = "decodeInsertAndCopy" /\ cmd.cmdCode >= 128)
        => LET adjusted == cmd.cmdCode - 128
               codes == CodesOf(cmd.cmdCode)
               ins == kInsertLengthPrefixCode[codes[1] + 1]
               cp == kCopyLengthPrefixCode[codes[2] + 1]
           IN  /\ pc = "decoded"
               /\ codes[1] \in 0..23 /\ codes[2] \in 0..23
               /\ cmd.insertLen \in ins[1]..(ins[1] + Pow2(ins[2]) - 1)
               /\ cmd.copyLen \in cp[1]..(cp[1] + Pow2(cp[2]) - 1)
               /\ br.data = <<>> => cmd.insertLen = ins[1] /\ cmd.copyLen = cp[1]
               /\ BitsConsumed(br) = ins[2] + cp[2]
               /\ \A other \in 128..703 : CodesOf(other) = codes => other = cmd.cmdCode
               /\ \E other \in 128..703 :
                     CodesOf(other) = <<adjusted \div 24, adjusted % 24>>
               /\ (cmd.distanceCode = 0) <=> ((adjusted \div 64) < 2)

\* the last command symbol has been decoded with all its extra bits set
LastCommandDecoded ==
    pc = "decoded" /\ cmd.cmdCode = 703 /\ cmd.insertLen > 22594 /\ cmd.copyLen > 2118

\* what brotliDecompress returns for the streams it returns for, when it is
\* the first call made
FirstCallResults ==
    { <<StreamLastDistanceFirst, <<97, 0, 0, 0, 0>> >>,
      <<StreamInsertThenCopy, [i \in 1..20 |-> IF i > 16 THEN 0 ELSE 97 + (i % 2)]>>,
      <<StreamExplicitDistance, [i \in 1..12 |-> 98]>>,
      <<StreamCompressedThenEmpty, <<99, 99>> >>,
      <<StreamCompressedThenRaw, <<99, 99, 1, 2, 3>> >>,
      <<StreamReservedBit, <<>> >>,
      <<StreamRawThenCompressed, <<1, 2, 3, 99, 99>> >>,
      <<StreamCopyCut, <<97, 0, 0>> >>,
      <<StreamInsertCut, <<99>> >>,
      <<StreamTwoDistances, [i \in 1..24 |-> 98]>>,
      <<SubSeq(StreamInsertThenCopy, 1, 13), [i \in 1..20 |-> IF i > 14 THEN 97 ELSE 97 + (i % 2)]>>,
      <<SubSeq(StreamInsertThenCopy, 1, 12), [i \in 1..20 |-> IF i > 6 THEN 97 ELSE 97 + (i % 2)]>>,
      <<SubSeq(StreamInsertThenCopy, 1, 11), [i \in 1..20 |-> 97]>>,
      <<SubSeq(StreamInsertThenCopy, 1, 10), [i \in 1..20 |-> 97]>> }

\* C12: whatever calls were made before it, a call returns what a first call
\* on the same input returns: brotliCompress the one stream its input lays
\* out, brotliDecompress of that stream the input, and brotliDecompress of a
\* stream of the caller's what it returns as a first call; and it returns
\* for no stream for which a first call does not return.
Purity ==
    /\ pc = "compressed"
        => IF input = <<>> THEN result = <<59>>
           ELSE /\ FieldAt(result, 0, 4) = 11
                /\ ChunksLaidOut(result, 4, input, 0)
    /\ (pc = "done" /\ call = "roundtrip") => result = input
    /\ (pc = "done" /\ call = "decompress")
        => \E e \in FirstCallResults : e[1] = br.data /\ e[2] = result

\* brotliDecompress has returned for a stream that copies at the last
\* distance, called after a call of brotliCompress and with the decoder's
\* objects of an earlier call around
LaterCallReturned ==
    /\ pc = "done" /\ call = "decompress"
    /\ br.data = StreamLastDistanceFirst
    /\ Len(input) > 0

\* the decoder is inside the body of a compressed meta-block
InBody == Decoding /\ pc \in {"body", "insert", "copy"}

\* C21: inside a compressed meta-block the bytes written never exceed MLEN;
\* a compressed meta-block starts with none written, every step inside it
\* appends to the output what it adds to the count, and it is left with
\* exactly MLEN written; an uncompressed meta-block appends exactly MLEN
\* bytes; a skip block appends none.
MetaBlockLengthExact ==
    /\ [](InBody => mb.metaBlockBytesWritten <= metaBlockLen)
    /\ [][/\ (Decoding /\ pc = "header" /\ pc' = "body")
              => mb'.metaBlockBytesWritten = 0 /\ output' = output
          /\ (InBody /\ InBody')
              => /\ Len(output') - Len(output)
                      = mb'.metaBlockBytesWritten - mb.metaBlockBytesWritten
                 /\ SubSeq(output', 1, Len(output)) = output
          /\ (InBody /\ pc' \in {"header", "done"})
              => mb.metaBlockBytesWritten = metaBlockLen /\ output' = output
          /\ (Decoding /\ pc = "header" /\ pc' \in {"header", "done"})
              => IF FieldAt(br.data, BitsConsumed(br), 1) = 0
                    /\ FieldAt(br.data, BitsConsumed(br) + 1, 2) = 0
                 THEN /\ Len(output') = Len(output)
                            + FieldAt(br.data, BitsConsumed(br) + 3, 16) + 1
                      /\ metaBlockLen' = FieldAt(br.data, BitsConsumed(br) + 3, 16) + 1
                 ELSE IF FieldAt(br.data, BitsConsumed(br), 1) = 1
                         \/ FieldAt(br.data, BitsConsumed(br) + 1, 2) = 3
                      THEN output' = output
                      ELSE Len(output') = Len(output) + metaBlockLen']_vars

\* a copy was cut at MLEN: the meta-block is left with MLEN bytes written
\* while the copy had bytes to go
CopyCutAtLength ==
    /\ pc = "copy" /\ call = "decompress" /\ WithinInput
    /\ cmd.i < cmd.copyLen
    /\ mb.metaBlockBytesWritten = metaBlockLen
    /\ Len(output) = metaBlockLen

\* C22: a skip block with skip bytes leaves the reader skip_nibbles + 1 whole
\* bytes behind the first byte boundary at or after its 7 header bits, and
\* leaves the output as it is.
SkipBlockAligned ==
    [][(/\ Decoding /\ pc = "header"
        /\ FieldAt(br.data, BitsConsumed(br), 1) = 0
        /\ FieldAt(br.data, BitsConsumed(br) + 1, 2) = 3
        /\ FieldAt(br.data, BitsConsumed(br) + 4, 1) = 1
        /\ WithinInput')
          => /\ BitsConsumed(br')
                  = 8 * ((BitsConsumed(br) + 7 + 7) \div 8)
                      + 8 * (FieldAt(br.data, BitsConsumed(br) + 5, 2) + 1)
             /\ output' = output]_vars

\* the decoder's distance ring read from its newest entry to its oldest
NewestFirst(ring, ringIdx) == [k \in 1..4 |-> ring[And32(ringIdx - k, 3) + 1]]

\* C23: the step that resolves a command's distance leaves the ring and its
\* index unchanged for distance code 0, and for any other code makes the
\* distance the newest entry, drops the oldest and keeps the other three in
\* order; the encoder's update of lastDistances does the same to the same
\* ring, for code 0 and for the codes above it.
DistanceRingUpdate ==
    [][(Decoding /\ pc = "insert" /\ pc' = "copy")
        => LET ring == NewestFirst(distRingBuffer, distRingBufferIdx)
               pushed == <<cmd'.distance, ring[1], ring[2], ring[3]>>
           IN  /\ IF cmd.distanceCode = 0
                  THEN /\ distRingBuffer' = distRingBuffer
                       /\ distRingBufferIdx' = distRingBufferIdx
                  ELSE NewestFirst(distRingBuffer', distRingBufferIdx') = pushed
               /\ UpdateLastDistances(ring, 0, cmd'.distance) = ring
               /\ \A distCode \in 1..17 :
                      UpdateLastDistances(ring, distCode, cmd'.distance) = pushed]_vars

\* a second distance has been pushed, the first one kept behind it
SecondDistancePushed ==
    /\ pc = "copy" /\ Decoding
    /\ cmd.distanceCode # 0
    /\ distRingBufferIdx = 2
    /\ NewestFirst(distRingBuffer, distRingBufferIdx)[3] = 16

\* C24: the fields read back from the aligned bytes are the values written,
\* in order, at whatever bit offset each field starts.
BitStreamRoundTrip ==
    pc = "reading"
        => \A i \in 1..Len(fn.read) : fn.read[i] = fn.fields[i][1]

\* a 24-bit field that starts 5 bits into a byte has been read back, after
\* the field before it
WideFieldReadBack ==
    /\ pc = "reading"
    /\ Len(fn.read) = 2
    /\ fn.fields[1] = <<31, 5>>
    /\ fn.fields[2] = <<10837669, 24>>
    /\ fn.read = <<31, 10837669>>

\* findMatches returns a copy command for the input
MatchAccepted(in) ==
    \E i \in 1..Len(findMatches(in, maxDistance)) :
        findMatches(in, maxDistance)[i].type = "copy"

\* C25: for an input in which the matcher accepts a match, the meta-block
\* that follows WBITS in what brotliCompress returns is not an uncompressed
\* one (ISLAST = 0, MNIBBLES = 0, MLEN, ISUNCOMPRESSED = 1); for an input
\* without a match the stream is the all-uncompressed one. (Inputs of up to
\* 17 bytes.)
CompressedWhenMatched ==
    (pc = "compressed" /\ Len(input) \in 1..17)
        => IF MatchAccepted(input)
           THEN ~(/\ FieldAt(result, 4, 1) = 0
                  /\ FieldAt(result, 5, 2) = 0
                  /\ FieldAt(result, 23, 1) = 1)
           ELSE ChunksLaidOut(result, 4, input, 0)

\* the sum of 2^(15 - depth) over the symbols lo..hi (1-based) that have a depth
RECURSIVE KraftSum(_, _, _)
KraftSum(depths, lo, hi) ==
    IF hi < lo THEN 0
    ELSE IF lo = hi THEN IF depths[lo] \in 1..15 THEN Pow2(15 - depths[lo]) ELSE 0
    ELSE KraftSum(depths, lo, (lo + hi) \div 2) + KraftSum(depths, (lo + hi) \div 2 + 1, hi)

\* C26: for every frequency vector with at least two non-zero counts,
\* buildHuffmanCode(counts, n, 15) leaves its adjustment loop, gives a depth in
\* 1..15 to every symbol with a non-zero count and depth 0 to every other
\* symbol, and the depths satisfy the Kraft equality: the sum of 2^(15 - depth)
\* over the used symbols is 2^15
KraftEquality ==
    (call = "huffman" /\ pc = "built") =>
        /\ fn.built.done
        /\ Len(fn.built.depths) = fn.maxSymbols
        /\ \A i \in 1..fn.maxSymbols :
              IF fn.counts[i] > 0 THEN fn.built.depths[i] \in 1..15
              ELSE fn.built.depths[i] = 0
        /\ KraftSum(fn.built.depths, 1, fn.maxSymbols) = Pow2(15)

\* nine symbols of the largest alphabet are used, the loop has moved depths,
\* and the depths built are not all equal
NineSymbolsBuilt ==
    /\ call = "huffman"
    /\ pc = "built"
    /\ fn.maxSymbols = MaxAlphabet
    /\ fn.built.numSymbols = 9
    /\ fn.built.done
    /\ fn.built.depths[MaxAlphabet] = 4
    /\ fn.built.depths[MaxAlphabet - 8] = 2
    /\ fn.built.depths[1] = 0

\* C27: for every histogram with 1 to 4 non-zero symbols, the code word and
\* the code length that writePrefixCode returns for each used symbol are the
\* ones of the table that readPrefixCode builds from the bits written, and
\* every symbol emitted with the encoder's code is decoded by readHuffmanSymbol
\* to the same symbol while exactly the emitted bits are consumed
SimplePrefixCodeAgreement ==
    (call = "prefix" /\ pc = "decoding") =>
        /\ ~fn.failed
        /\ Len(fn.table.entries) = Cardinality({i \in 1..fn.numSymbols : fn.counts[i] > 0})
        /\ \A k \in 1..Len(fn.table.entries) :
              /\ fn.counts[fn.table.entries[k].symbol + 1] > 0
              /\ fn.table.entries[k].len = fn.depths[fn.table.entries[k].symbol + 1]
              /\ fn.table.entries[k].bits
                   = CodeAt(fn.codes, fn.table.entries[k].symbol, 1)
        /\ \A i \in 1..Len(fn.decoded) :
              /\ fn.decoded[i] = fn.emitted[i]
              /\ fn.consumed[i] = fn.written[i]

\* C28: for every insert code and copy code in 0..23 and every value of the
\* use-last-distance flag, decodeInsertAndCopy applied to
\* getCmdCode(insert code, copy code, flag) recovers the same insert code, the
\* same copy code and the same use-last-distance decision: the lengths it
\* returns are the ones of these two codes with the extra bits it read, and
\* its distance code is 0 exactly when the command code was taken from the
\* last-distance range
CommandCodeInverse ==
    (call = "getCmdCode" /\ pc \in {"decoded", "error"}) =>
        /\ pc = "decoded"
        /\ cmd.insertLen = InsertLength(NewBitReader(br.data), fn.insCode).v
        /\ cmd.copyLen
             = CopyLength(InsertLength(NewBitReader(br.data), fn.insCode).br,
                          fn.copyCode).v
        /\ (cmd.distanceCode = 0)
             <=> (fn.useLastDistance /\ fn.insCode < 8 /\ fn.copyCode < 16)

\* C29: with NPOSTFIX = 0 and NDIRECT = 0, for every distance that the encoder
\* codes on the explicit branch (no short code of the ring applies), the
\* distance symbol is emitted and lies inside the 64-symbol distance alphabet,
\* and the symbol and the extra bits emitted are decoded by decodeDistance
\* back to the distance
ExplicitDistanceRoundTrip ==
    (call = "distance" /\ pc \in {"emitted", "decoded"}
       /\ fn.distCode = fn.distance + 15) =>
        /\ fn.emitted
        /\ fn.symbol \in 0..63
        /\ pc = "decoded" =>
              /\ cmd.distance = fn.distance
              /\ br.pos * 8 - br.bitsAvailable = fn.extra

\* a copy command replayed: length bytes appended one at a time, each read
\* distance positions back in the output rebuilt so far
RECURSIVE ReplayCopy(_, _, _)
ReplayCopy(out, length, distance) ==
    IF length = 0 THEN out
    ELSE ReplayCopy(Append(out, out[Len(out) + 1 - distance]), length - 1, distance)

\* the output rebuilt by the commands from the k-th on
RECURSIVE Replay(_, _, _)
Replay(commands, k, out) ==
    IF k > Len(commands) THEN out
    ELSE IF commands[k].type = "literal"
    THEN Replay(commands, k + 1, out \o commands[k].data)
    ELSE IF commands[k].distance \in 1..Len(out)
    THEN Replay(commands, k + 1, ReplayCopy(out, commands[k].length, commands[k].distance))
    ELSE <<Undefined>>

\* C30: replaying the commands returned by findMatches in order reproduces
\* the input exactly; every copy command has length >= 4 and a distance from
\* 1 to the smaller of the number of bytes rebuilt before it and maxDistance;
\* no two literal commands are adjacent
CommandStreamFaithful ==
    (call = "findMatches" /\ pc = "returned") =>
        /\ Replay(fn.commands, 1, <<>>) = fn.st.input
        /\ \A k \in 1..Len(fn.commands) :
              fn.commands[k].type = "copy" =>
                 /\ fn.commands[k].length >= 4
                 /\ fn.commands[k].distance >= 1
                 /\ fn.commands[k].distance
                      <= Min(Len(Replay(SubSeq(fn.commands, 1, k - 1), 1, <<>>)),
                             fn.maxDistance)
        /\ \A k \in 1..(Len(fn.commands) - 1) :
              ~(fn.commands[k].type = "literal" /\ fn.commands[k + 1].type = "literal")

\* findMatches has returned literals, a copy that overlaps its own output
\* (its distance is below its length), and the literals that remain
OverlappingCopyReturned ==
    /\ call = "findMatches"
    /\ pc = "returned"
    /\ Len(fn.commands) = 3
    /\ fn.commands[1].type = "literal"
    /\ fn.commands[2].type = "copy"
    /\ fn.commands[2].distance < fn.commands[2].length
    /\ fn.commands[3].type = "literal"

=============================================================================
